---- MODULE Spec2Model ----
(***************************************************************************)
(* State-machine model of the per-guild playback engine of hertz           *)
(* (src/hertz/services/player.py) together with the commands of            *)
(* src/hertz/cogs/playback.py and src/hertz/cogs/queue.py that drive it.   *)
(*                                                                         *)
(* The engine state is the set of fields of Player.  The voice transport   *)
(* (disnake.VoiceClient) is modelled by three fields: what its audio       *)
(* player is doing (vc_state), which song its source was built for         *)
(* (vc_song) and which `after` callback was wired to it (vc_after).        *)
(* Stopping a source or letting it run out calls `after` once; the         *)
(* callback wired by play() posts a _handle_song_finished task into the    *)
(* event loop (events).  play() suspends in asyncio.sleep(0.2) after it    *)
(* stopped a source; the suspended call is a frame (frames) and the posted *)
(* tasks may run before it wakes up.                                       *)
(*                                                                         *)
(* Two further components have their own variables and specifications:     *)
(* the request throttle AsyncRequestQueue (src/hertz/services/api_queue.py,*)
(* ThrottleSpec) and the file cache FileCacheProvider with its registry    *)
(* table (src/hertz/services/file_cache.py, src/hertz/db/client.py,        *)
(* CacheSpec and EvictSpec).  Each specification moves the variables of    *)
(* its own component and leaves the others as constructed.                 *)
(***************************************************************************)
EXTENDS Integers, Sequences, FiniteSets, TLC

\* ---- bounds of the model ------------------------------------------------
\* longest queue
MaxQueue == 3
\* largest position_in_seconds
MaxPos == 2
\* largest argument of forward, remove_from_queue and move
MaxSkip == 2
\* most _handle_song_finished tasks pending while no play() is asleep; a
\* play() that is asleep may have posted one more
MaxEvents == 1
\* most play() calls asleep at a time
MaxFrames == 1
\* most scheduled timers that lost their handle
MaxStray == 1

\* calls of AsyncRequestQueue.add, those of one add_batch included
MaxTasks == 6
\* items of the add_batch call (tasks 1..MaxBatch)
MaxBatch == 3

\* coroutines that use the file cache at the same time
MaxProcs == 2

\* ---- songs ---------------------------------------------------------------
\* A QueuedSong is identified by its url.  "a" is an ordinary track, "live" is
\* a livestream (is_live, length 0) and "bad" is a track of a playlist for
\* which _get_audio_source raises (no stream url can be extracted).
Songs == {"a", "live", "bad"}
NoSong == "none"

is_live(s) == s = "live"

length(s) == IF is_live(s) THEN 0 ELSE 1

\* _get_audio_source(song) returns a source unless extraction fails
SourceAvailable(s) == s # "bad"

VARIABLES
  voice_client,          \* TRUE iff self.voice_client is not None
  status,                \* Status.PLAYING / PAUSED / IDLE
  queue,                 \* self.queue
  queue_position,        \* self.queue_position (0-based)
  position_in_seconds,   \* self.position_in_seconds
  loop_current_song,     \* self.loop_current_song
  loop_current_queue,    \* self.loop_current_queue
  position_tracker_task, \* TRUE iff an update_position task is running
  disconnect_timer,      \* "Pending" iff self.disconnect_timer is a timer still to fire
  stray_timers,          \* scheduled timers no longer referenced by the handle
  last_song_url,         \* self.last_song_url
  just_skipped,          \* self.just_skipped
  vc_state,              \* transport: "idle", "playing" or "paused"
  vc_song,               \* song of the source handed to voice_client.play
  vc_after,              \* callback wired to that source: "play", "seek" ("none": no source)
  events,                \* posted _handle_song_finished tasks, oldest first
  frames,                \* play() calls suspended in asyncio.sleep(0.2)
  secondsToWaitAfterQueueEmpties  \* guild setting read by forward/_handle_song_finished

VARIABLES
  semaphore,             \* AsyncRequestQueue.semaphore: [_value, _waiters]
  active_tasks,          \* AsyncRequestQueue.active_tasks
  tasks,                 \* position of every call of add()
  batch                  \* the add_batch call: [state, results]

throttle_vars == <<semaphore, active_tasks, tasks, batch>>

player_vars == <<voice_client, status, queue, queue_position, position_in_seconds,
          loop_current_song, loop_current_queue, position_tracker_task,
          disconnect_timer, stray_timers, last_song_url, just_skipped,
          vc_state, vc_song, vc_after, events, frames,
          secondsToWaitAfterQueueEmpties>>

VARIABLES
  registry,              \* table file_caches: records [hash, bytes], least
                         \* recently accessed first (order of accessedAt)
  files,                 \* hashes with a file at <cache_dir>/<hash>
  tmp_files,             \* hashes with a file at <cache_dir>/tmp/<hash>.tmp
  undeletable,           \* hashes whose file os.remove cannot delete
  cache_limit_bytes,     \* FileCacheProvider.cache_limit_bytes
  _eviction_lock,        \* FileCacheProvider._eviction_lock: holder, 0 if free
  calls                  \* the call each coroutine is in, with its locals

cache_vars == <<registry, files, tmp_files, undeletable, cache_limit_bytes,
                _eviction_lock, calls>>

VARIABLES
  key_value_caches,      \* table key_value_caches: key -> [value, expiresAt]
  utcnow,                \* datetime.utcnow(), in ticks of 1/TicksPerSecond s
  kv_call,               \* the call in progress or last returned, with its locals
  last_set               \* history: key -> [at, ttl, value] of the last set of the key

kv_vars == <<key_value_caches, utcnow, kv_call, last_set>>

vars == <<player_vars, throttle_vars, cache_vars, kv_vars>>

\* ---- the operation in progress ----------------------------------------------
\* What an operation on the engine reports besides the state it leaves.
\* op: its name; raised: it ended with an exception; failed_at: queue_position
\* of its first play() that failed to build or start its source (-1 when none
\* did); suspended: it is not finished, its play() sleeps in a frame.
Call(op) ==
  [op |-> op, raised |-> FALSE, failed_at |-> 0 - 1, suspended |-> FALSE]

\* The engine state as one record, with the operation in progress in g.
Player(g) ==
  [voice_client |-> voice_client, status |-> status, queue |-> queue,
   queue_position |-> queue_position,
   position_in_seconds |-> position_in_seconds,
   loop_current_song |-> loop_current_song,
   loop_current_queue |-> loop_current_queue,
   position_tracker_task |-> position_tracker_task,
   disconnect_timer |-> disconnect_timer, stray_timers |-> stray_timers,
   last_song_url |-> last_song_url, just_skipped |-> just_skipped,
   vc_state |-> vc_state, vc_song |-> vc_song, vc_after |-> vc_after,
   events |-> events, frames |-> frames,
   secondsToWaitAfterQueueEmpties |-> secondsToWaitAfterQueueEmpties,
   g |-> g]

\* The step to the state r, provided r stays within the bounds of the model.
Becomes(r) ==
  /\ Len(r.queue) <= MaxQueue
  /\ Len(r.events) <= MaxEvents + Len(r.frames)
  /\ Len(r.frames) <= MaxFrames
  /\ r.stray_timers <= MaxStray
  /\ voice_client' = r.voice_client
  /\ status' = r.status
  /\ queue' = r.queue
  /\ queue_position' = r.queue_position
  /\ position_in_seconds' = r.position_in_seconds
  /\ loop_current_song' = r.loop_current_song
  /\ loop_current_queue' = r.loop_current_queue
  /\ position_tracker_task' = r.position_tracker_task
  /\ disconnect_timer' = r.disconnect_timer
  /\ stray_timers' = r.stray_timers
  /\ last_song_url' = r.last_song_url
  /\ just_skipped' = r.just_skipped
  /\ vc_state' = r.vc_state
  /\ vc_song' = r.vc_song
  /\ vc_after' = r.vc_after
  /\ events' = r.events
  /\ frames' = r.frames
  /\ secondsToWaitAfterQueueEmpties' = r.secondsToWaitAfterQueueEmpties
  /\ UNCHANGED <<throttle_vars, cache_vars, kv_vars>>

Raise(p) == [p EXCEPT !.g.raised = TRUE]

\* ---- transport ------------------------------------------------------------
vc_active(p) == p.vc_state \in {"playing", "paused"}

\* The `after` callback of a source.  after_playing of play() posts a
\* _handle_song_finished task with call_soon_threadsafe on the stored loop.
\* after_playing of seek() calls asyncio.get_event_loop() on the transport's
\* player thread, which has no event loop: it raises there and posts nothing.
\* The task takes no argument; what the model notes with it is for the
\* properties only: the song of the source that ended and whether it ran out
\* (natural) or was stopped.
\* The audio player that ended is dropped by the transport.
CallAfter(p, natural) ==
  LET ended == [p EXCEPT !.vc_state = "idle", !.vc_song = NoSong, !.vc_after = "none"]
  IN  IF p.vc_after = "play"
      THEN [ended EXCEPT !.events = Append(@, [song |-> p.vc_song, natural |-> natural])]
      ELSE ended

\* voice_client.stop(): ends the audio player, which then calls `after`
vc_stop(p) ==
  IF vc_active(p)
  THEN CallAfter(p, FALSE)
  ELSE p

\* ---- queue ----------------------------------------------------------------
get_current(p) ==
  IF p.queue_position < Len(p.queue) THEN p.queue[p.queue_position + 1] ELSE NoSong

get_queue(p) ==
  IF p.queue_position < Len(p.queue)
  THEN SubSeq(p.queue, p.queue_position + 2, Len(p.queue))
  ELSE <<>>

queue_size(p) == Len(get_queue(p))

InsertAt(s, i, x) == SubSeq(s, 1, i) \o <<x>> \o SubSeq(s, i + 1, Len(s))

\* add() that inserts an immediate song before the current one
add_at_cursor(p, song, playlist, immediate) ==
  IF playlist \/ ~immediate
  THEN [p EXCEPT !.queue = Append(@, song)]
  ELSE [p EXCEPT !.queue =
          IF p.queue_position >= Len(@) THEN Append(@, song)
          ELSE InsertAt(@, p.queue_position, song)]

\* add(song, immediate); playlist is TRUE when the song came from a playlist
add(p, song, playlist, immediate) ==
  IF playlist \/ ~immediate
  THEN [p EXCEPT !.queue = Append(@, song)]
  ELSE [p EXCEPT !.queue =
          IF p.queue_position + 1 >= Len(@) THEN Append(@, song)
          ELSE InsertAt(@, p.queue_position + 1, song)]

\* ---- position tracker -----------------------------------------------------
_stop_position_tracking(p) == [p EXCEPT !.position_tracker_task = FALSE]

\* _start_position_tracking(initial_position); reset is FALSE for None
_start_position_tracking(p, reset, initial_position) ==
  [_stop_position_tracking(p) EXCEPT
     !.position_tracker_task = TRUE,
     !.position_in_seconds = IF reset THEN initial_position ELSE @]

\* ---- idle-disconnect timer ------------------------------------------------
\* `if self.disconnect_timer: self.disconnect_timer.cancel(); ... = None`
CancelDisconnectTimer(p) == [p EXCEPT !.disconnect_timer = "None"]

\* `self.disconnect_timer = loop.call_later(delay, ...)` when delay > 0: the
\* handle is overwritten, a timer it referenced stays scheduled.
ScheduleDisconnect(p) ==
  IF p.secondsToWaitAfterQueueEmpties > 0
  THEN [p EXCEPT !.stray_timers = IF p.disconnect_timer = "Pending" THEN @ + 1 ELSE @,
                 !.disconnect_timer = "Pending"]
  ELSE p

\* ---- playback -------------------------------------------------------------
\* The first failing play() of the operation failed on the track at cursor c.
MarkFailed(p, c) ==
  IF p.g.failed_at < 0 THEN [p EXCEPT !.g.failed_at = c] ELSE p

pause(p) ==
  IF p.status # "PLAYING" THEN Raise(p)
  ELSE _stop_position_tracking(
         [p EXCEPT !.vc_state = IF p.voice_client /\ @ = "playing" THEN "paused" ELSE @,
                   !.status = "PAUSED"])

seek(p, position_seconds) ==
  LET current_song == get_current(p) IN
  IF ~p.voice_client \/ current_song = NoSong THEN Raise(p)
  ELSE IF is_live(current_song) \/ position_seconds > length(current_song) THEN Raise(p)
  ELSE LET stopped == vc_stop(p) IN
       IF ~SourceAvailable(current_song) THEN Raise(stopped)
       ELSE _start_position_tracking(
              [stopped EXCEPT !.vc_state = "playing", !.vc_song = current_song,
                              !.vc_after = "seek", !.status = "PLAYING"],
              TRUE, position_seconds)

RECURSIVE play(_), forward(_, _), StartSource(_, _, _, _)

\* the start of a source that leaves self.status as it was
StartSource_keeps_status(p, current_song, same_song, c) ==
  IF p.voice_client /\ p.vc_state # "playing"
  THEN _start_position_tracking(
         [p EXCEPT !.vc_state = "playing", !.vc_song = current_song,
                   !.vc_after = "play", !.last_song_url = current_song],
         ~same_song, 0)
  ELSE Raise(forward(MarkFailed(p, c), 1))

\* play(), lines 344-371: voice_client.play(source, after=after_playing) and
\* what follows it.  voice_client.play raises when the transport is already
\* playing (and the call fails when self.voice_client is None); the handler
\* of play() then calls forward(1) and raises.  c is queue_position when
\* play() was called.
StartSource(p, current_song, same_song, c) ==
  IF p.voice_client /\ p.vc_state # "playing"
  THEN _start_position_tracking(
         [p EXCEPT !.vc_state = "playing", !.vc_song = current_song,
                   !.vc_after = "play", !.status = "PLAYING",
                   !.last_song_url = current_song],
         ~same_song, 0)
  ELSE Raise(forward(MarkFailed(p, c), 1))

\* play(), lines 301-342: build the source, stop what is playing and sleep.
\* A play() that stopped a source sleeps 0.2 s before it starts the new one:
\* it is left in frames and continued by WakeUp.
NormalPlayback(p, current_song, same_song) ==
  IF ~SourceAvailable(current_song)
  THEN Raise(forward(MarkFailed(p, p.queue_position), 1))
  ELSE IF vc_active(p)
       THEN [vc_stop(p) EXCEPT
               !.frames = Append(@, [song |-> current_song, same_song |-> same_song,
                                     c |-> p.queue_position, g |-> p.g,
                                     posted |-> p.vc_after = "play"]),
               !.g.suspended = TRUE]
       ELSE StartSource(p, current_song, same_song, p.queue_position)

play(p) ==
  LET current_song == get_current(p) IN
  IF ~p.voice_client \/ current_song = NoSong THEN Raise(p)
  ELSE
    LET p1 == CancelDisconnectTimer(p)
        same_song == current_song = p1.last_song_url
        has_position == p1.position_in_seconds > 0
    IN  IF same_song /\ has_position /\ p1.status = "PAUSED" /\ p1.vc_state = "paused"
        THEN _start_position_tracking(
               [p1 EXCEPT !.vc_state = "playing", !.status = "PLAYING"], FALSE, 0)
        ELSE IF same_song /\ has_position /\ ~is_live(current_song)
        THEN LET sought == seek(p1, p1.position_in_seconds) IN
             IF ~sought.g.raised
             THEN [sought EXCEPT !.status = "PLAYING"]
             ELSE NormalPlayback([sought EXCEPT !.status = p1.status, !.g.raised = FALSE],
                                 current_song, same_song)
        ELSE NormalPlayback(p1, current_song, same_song)

\* forward() without the check that the target is inside the queue
forward_unchecked(p, skip) ==
  LET p2 == [_stop_position_tracking(p) EXCEPT !.loop_current_song = FALSE,
                                               !.queue_position = @ + skip,
                                               !.position_in_seconds = 0,
                                               !.just_skipped = TRUE]
  IN  IF p2.status # "PAUSED" THEN play(p2) ELSE p2

forward(p, skip) ==
  LET p1 == [_stop_position_tracking(p) EXCEPT !.loop_current_song = FALSE] IN
  IF p1.queue_position + skip < Len(p1.queue)
  THEN LET p2 == [p1 EXCEPT !.queue_position = @ + skip,
                            !.position_in_seconds = 0,
                            !.just_skipped = TRUE]
       IN  IF p2.status # "PAUSED" THEN play(p2) ELSE p2
  ELSE ScheduleDisconnect(
         [(IF p1.voice_client THEN vc_stop(p1) ELSE p1) EXCEPT !.status = "IDLE"])

\* back() that resets the position before it checks the cursor
back_resets_first(p) ==
  LET p0 == [p EXCEPT !.position_in_seconds = 0] IN
  IF p0.queue_position > 0
  THEN LET p1 == _stop_position_tracking(
                   [p0 EXCEPT !.queue_position = @ - 1,
                              !.just_skipped = TRUE])
       IN  IF p1.status # "PAUSED" THEN play(p1) ELSE p1
  ELSE Raise(p0)

back(p) ==
  IF p.queue_position > 0
  THEN LET p1 == _stop_position_tracking(
                   [p EXCEPT !.queue_position = @ - 1,
                             !.position_in_seconds = 0,
                             !.just_skipped = TRUE])
       IN  IF p1.status # "PAUSED" THEN play(p1) ELSE p1
  ELSE Raise(p)

\* voice_client.disconnect(force=True) stops the audio player as well
disconnect(p) ==
  LET p1 == CancelDisconnectTimer(_stop_position_tracking(p)) IN
  IF p1.voice_client
  THEN LET p2 == IF p1.status = "PLAYING" THEN pause(p1) ELSE p1
       IN  [vc_stop(p2) EXCEPT !.loop_current_song = FALSE,
                               !.voice_client = FALSE,
                               !.status = "IDLE"]
  ELSE [p1 EXCEPT !.status = "IDLE"]

stop(p) ==
  IF ~p.voice_client \/ p.status # "PLAYING" THEN Raise(p)
  ELSE [disconnect(p) EXCEPT !.queue = <<>>, !.queue_position = 0]

connect(p) == [p EXCEPT !.voice_client = TRUE]

\* _handle_song_finished() that does not re-append under queue loop
_handle_song_finished_no_readd(p) ==
  IF p.status # "PLAYING" THEN p
  ELSE IF p.loop_current_song THEN seek(p, 0)
  ELSE IF p.just_skipped
       THEN [p EXCEPT !.just_skipped = FALSE]
       ELSE IF p.queue_position + 1 < Len(p.queue)
            THEN forward(p, 1)
            ELSE ScheduleDisconnect([p EXCEPT !.status = "IDLE"])

_handle_song_finished(p) ==
  IF p.status # "PLAYING" THEN p
  ELSE IF p.loop_current_song THEN seek(p, 0)
  ELSE LET current_song == get_current(p)
           p1 == IF p.loop_current_queue /\ current_song # NoSong
                 THEN add(p, current_song, FALSE, FALSE)
                 ELSE p
       IN  IF p1.just_skipped
           THEN [p1 EXCEPT !.just_skipped = FALSE]
           ELSE IF p1.queue_position + 1 < Len(p1.queue)
                THEN forward(p1, 1)
                ELSE ScheduleDisconnect([p1 EXCEPT !.status = "IDLE"])

\* disconnect_callback of forward / _handle_song_finished
disconnect_callback(p) == IF p.status = "IDLE" THEN disconnect(p) ELSE p

\* ---- queue editing --------------------------------------------------------
\* clear() without the reset of queue_position
clear_keeps_cursor(p) ==
  LET current == get_current(p) IN
  [p EXCEPT !.queue = IF current # NoSong THEN <<current>> ELSE <<>>]

clear(p) ==
  LET current == get_current(p) IN
  [p EXCEPT !.queue = IF current # NoSong THEN <<current>> ELSE <<>>,
            !.queue_position = 0]

\* the orders random.shuffle can give to the sequence s
Shuffles(s) ==
  {t \in [1..Len(s) -> Songs] :
     \E f \in [1..Len(s) -> 1..Len(s)] :
        /\ \A i, j \in 1..Len(s) : i # j => f[i] # f[j]
        /\ \A i \in 1..Len(s) : t[i] = s[f[i]]}

\* shuffle() with the order `upcoming` drawn by random.shuffle
shuffle(p, upcoming) ==
  IF get_queue(p) = <<>> THEN p
  ELSE [p EXCEPT !.queue = SubSeq(@, 1, p.queue_position + 1) \o upcoming]

Min(x, y) == IF x < y THEN x ELSE y

remove_from_queue(p, index, amount) ==
  LET actual_index == p.queue_position + index IN
  IF actual_index < Len(p.queue)
  THEN [p EXCEPT !.queue = SubSeq(@, 1, actual_index)
                           \o SubSeq(@, Min(actual_index + amount, Len(@)) + 1, Len(@))]
  ELSE p

move(p, from_pos, to_pos) ==
  LET actual_from == p.queue_position + from_pos
      actual_to == p.queue_position + to_pos
  IN  IF actual_from < Len(p.queue) /\ actual_to < Len(p.queue)
      THEN LET song == p.queue[actual_from + 1]
               popped == SubSeq(p.queue, 1, actual_from)
                         \o SubSeq(p.queue, actual_from + 2, Len(p.queue))
           IN  [p EXCEPT !.queue = InsertAt(popped, actual_to, song)]
      ELSE Raise(p)

\* ---- loop commands (cogs) ---------------------------------------------------
\* loop command that leaves the queue loop on
loop_keeps_queue_loop(p) ==
  IF p.status = "IDLE" THEN p
  ELSE [p EXCEPT !.loop_current_song = ~p.loop_current_song]

\* PlaybackCommands.loop
loop(p) ==
  IF p.status = "IDLE" THEN p
  ELSE [p EXCEPT !.loop_current_queue = FALSE,
                 !.loop_current_song = ~p.loop_current_song]

\* QueueCommands.loop_queue
loop_queue(p) ==
  IF p.status = "IDLE" \/ queue_size(p) < 1 THEN p
  ELSE [p EXCEPT !.loop_current_song = FALSE,
                 !.loop_current_queue = ~p.loop_current_queue]

\* songs that come from a playlist (song.playlist is set)
playlist(s) == s = "bad"

\* ---- the state machine ------------------------------------------------------
DefaultDelay == 30

\* AsyncRequestQueue(concurrency=4), as services/youtube.py constructs it
concurrency == 4

\* AsyncRequestQueue.__init__
ThrottleInit ==
  /\ semaphore = [_value |-> concurrency, _waiters |-> <<>>]
  /\ active_tasks = 0
  /\ tasks = [i \in 1..MaxTasks |-> "new"]
  /\ batch = [state |-> "none", results |-> <<>>]

\* a coroutine that has not called the cache
NoCall ==
  [op |-> "none", pc |-> "idle", hash_key |-> "", file_path |-> "",
   result |-> "", stack |-> <<>>, cache_entry |-> FALSE, returncode |-> 0,
   fault |-> "none",
   total_size |-> 0, bytes_to_free |-> 0, bytes_freed |-> 0,
   oldest_files |-> <<>>, cache_files |-> <<>>, item |-> 0,
   snapshot |-> <<>>, evicted |-> <<>>, dropped |-> <<>>, before |-> <<>>]

\* FileCacheProvider.__init__ on an empty cache directory and table
CacheEmpty ==
  /\ registry = <<>>
  /\ files = {}
  /\ tmp_files = {}
  /\ undeletable = {}
  /\ cache_limit_bytes = 100
  /\ _eviction_lock = 0
  /\ calls = [p \in 1..MaxProcs |-> NoCall]

PlayerInit ==
  /\ voice_client = FALSE
  /\ status = "IDLE"
  /\ queue = <<>>
  /\ queue_position = 0
  /\ position_in_seconds = 0
  /\ loop_current_song = FALSE
  /\ loop_current_queue = FALSE
  /\ position_tracker_task = FALSE
  /\ disconnect_timer = "None"
  /\ stray_timers = 0
  /\ last_song_url = ""
  /\ just_skipped = FALSE
  /\ vc_state = "idle"
  /\ vc_song = NoSong
  /\ vc_after = "none"
  /\ events = <<>>
  /\ frames = <<>>
  /\ secondsToWaitAfterQueueEmpties = DefaultDelay

\* Python values of the key-value cache: [type, v], v the text of a str or
\* the one element of a container
None == [type |-> "NoneType", v |-> ""]

Str(text) == [type |-> "str", v |-> text]

NoKVCall == [op |-> "none", pc |-> "idle", key |-> "", ttl |-> 0, at |-> 0,
             cached |-> None, produced |-> None, result |-> None,
             raised |-> "none", func_calls |-> 0]

\* the table is empty when the database is created
KVEmpty ==
  /\ key_value_caches = <<>>
  /\ utcnow = 0
  /\ kv_call = NoKVCall
  /\ last_set = <<>>

Init == PlayerInit /\ ThrottleInit /\ CacheEmpty /\ KVEmpty

\* Commands of one guild are issued one at a time: none starts while a play()
\* of an earlier one is still suspended.
Quiet == frames = <<>>

Cmd(op) == Player(Call(op))

Add == \E song \in Songs, immediate \in BOOLEAN :
  Quiet /\ Becomes(add(Cmd("add"), song, playlist(song), immediate))

Connect == Quiet /\ Becomes(connect(Cmd("connect")))

Play == Quiet /\ Becomes(play(Cmd("play")))

Pause == Quiet /\ Becomes(pause(Cmd("pause")))

Seek == \E position_seconds \in 0..MaxPos :
  Quiet /\ Becomes(seek(Cmd("seek"), position_seconds))

Forward == \E skip \in 1..MaxSkip :
  Quiet /\ Becomes(forward(Cmd("forward"), skip))

Back == Quiet /\ Becomes(back(Cmd("back")))

Stop == Quiet /\ Becomes(stop(Cmd("stop")))

Disconnect == Quiet /\ Becomes(disconnect(Cmd("disconnect")))

Clear == Quiet /\ Becomes(clear(Cmd("clear")))

Shuffle == \E upcoming \in Shuffles(get_queue(Cmd("shuffle"))) :
  Quiet /\ Becomes(shuffle(Cmd("shuffle"), upcoming))

Remove == \E index \in 1..MaxSkip, amount \in 1..MaxSkip :
  Quiet /\ Becomes(remove_from_queue(Cmd("remove"), index, amount))

Move == \E from_pos \in 1..MaxSkip, to_pos \in 1..MaxSkip :
  Quiet /\ Becomes(move(Cmd("move"), from_pos, to_pos))

Loop == Quiet /\ Becomes(loop(Cmd("loop")))

LoopQueue == Quiet /\ Becomes(loop_queue(Cmd("loop_queue")))

\* the source that is playing runs out: the audio player calls `after`
SongEnds ==
  /\ vc_state = "playing"
  /\ Becomes(CallAfter(Cmd("song_ends"), TRUE))

\* the event loop runs the oldest posted _handle_song_finished task
Handled == _handle_song_finished([Cmd("finished") EXCEPT !.events = Tail(@)])

HandleSongFinished ==
  /\ events # <<>>
  /\ Becomes(Handled)

\* update_position: one more second
Tick ==
  /\ position_tracker_task
  /\ position_in_seconds < MaxPos
  /\ Becomes([Cmd("tick") EXCEPT !.position_in_seconds = @ + 1])

\* the timer referenced by self.disconnect_timer fires
TimerFires ==
  /\ disconnect_timer = "Pending"
  /\ Becomes(disconnect_callback([Cmd("timer") EXCEPT !.disconnect_timer = "None"]))

\* a timer whose handle was overwritten fires
StrayTimerFires ==
  /\ stray_timers > 0
  /\ Becomes(disconnect_callback([Cmd("timer") EXCEPT !.stray_timers = @ - 1]))

\* the oldest suspended play() wakes up from asyncio.sleep(0.2)
Woken ==
  LET f == Head(frames)
      p == [Player([f.g EXCEPT !.suspended = FALSE]) EXCEPT !.frames = Tail(@)]
  IN  StartSource(p, f.song, f.same_song, f.c)

WakeUp ==
  /\ frames # <<>>
  /\ Becomes(Woken)

Next ==
  \/ Add \/ Connect \/ Play \/ Pause \/ Seek \/ Forward \/ Back \/ Stop
  \/ Disconnect \/ Clear \/ Shuffle \/ Remove \/ Move \/ Loop \/ LoopQueue
  \/ SongEnds \/ HandleSongFinished \/ Tick \/ TimerFires \/ StrayTimerFires
  \/ WakeUp

Spec == Init /\ [][Next]_vars

TypeOK ==
  /\ status \in {"PLAYING", "PAUSED", "IDLE"}
  /\ queue_position \in 0..MaxQueue
  /\ Len(queue) <= MaxQueue

\* ==== the request throttle (services/api_queue.py) ============================
\* A call of add() is at one of these places:
\*   "new"       not called yet
\*   "waiting"   suspended in semaphore.acquire(), its future pending
\*   "admitted"  its future was set by a release, the call has not resumed yet
\*   "running"   inside `await func(...)`
\*   "returned"  add() returned func's result
\*   "raised"    add() raised func's exception
Tasks == 1..MaxTasks

Throttle == [semaphore |-> semaphore, active_tasks |-> active_tasks,
             tasks |-> tasks]

\* asyncio.Semaphore.locked: no permit left, or a waiter that was not cancelled
\* (a woken waiter stays in _waiters until it resumes)
locked(q) == q.semaphore._value = 0 \/ q.semaphore._waiters # <<>>

\* asyncio.Semaphore._wake_up_next: the first waiter whose future is not done
\* takes a permit and is woken
RECURSIVE FirstPending(_, _)
FirstPending(q, w) ==
  IF w = <<>> THEN 0
  ELSE IF q.tasks[Head(w)] = "waiting" THEN Head(w)
  ELSE FirstPending(q, Tail(w))

_wake_up_next(q) ==
  LET i == FirstPending(q, q.semaphore._waiters)
  IN  IF i = 0 THEN q
      ELSE [q EXCEPT !.semaphore._value = @ - 1, !.tasks[i] = "admitted"]

\* asyncio.Semaphore.release
release(q) == _wake_up_next([q EXCEPT !.semaphore._value = @ + 1])

\* add() up to its first suspension: `async with self.semaphore` takes a permit
\* at once and func starts, or the call queues up behind the others
add_enters_unlimited(q, i) ==
  [q EXCEPT !.active_tasks = @ + 1, !.tasks[i] = "running"]

add_enters(q, i) ==
  IF ~locked(q)
  THEN [q EXCEPT !.semaphore._value = @ - 1,
                 !.active_tasks = @ + 1,
                 !.tasks[i] = "running"]
  ELSE [q EXCEPT !.semaphore._waiters = Append(@, i),
                 !.tasks[i] = "waiting"]

RECURSIVE RemoveWaiter(_, _)
RemoveWaiter(w, i) ==
  IF w = <<>> THEN <<>>
  ELSE IF Head(w) = i THEN Tail(w)
  ELSE <<Head(w)>> \o RemoveWaiter(Tail(w), i)

\* a woken add() resumes in acquire(): it leaves _waiters, passes a spare
\* permit on, and func starts
add_resumes(q, i) ==
  LET q1 == [q EXCEPT !.semaphore._waiters = RemoveWaiter(@, i)]
      q2 == IF q1.semaphore._value > 0 THEN _wake_up_next(q1) ELSE q1
  IN  [q2 EXCEPT !.active_tasks = @ + 1, !.tasks[i] = "running"]

\* func is over: the finally clause counts the task out, leaving the
\* `async with` block releases the permit, and add() returns the result or
\* lets the exception through
add_leaks_on_error(q, i, ok) ==
  IF ok THEN release([q EXCEPT !.active_tasks = @ - 1, !.tasks[i] = "returned"])
  ELSE [q EXCEPT !.tasks[i] = "raised"]

add_leaves(q, i, ok) ==
  release([q EXCEPT !.active_tasks = @ - 1,
                    !.tasks[i] = IF ok THEN "returned" ELSE "raised"])

\* what a finished add(func, item) hands to its caller
Outcome(q, i) ==
  IF q.tasks[i] = "returned" THEN <<"result", i>> ELSE <<"error", i>>

\* asyncio.gather(*tasks, return_exceptions=True) of add_batch: one outcome per
\* awaitable, in the order they were passed
gather_first_exception(q, items) ==
  IF \E i \in 1..items : q.tasks[i] = "raised"
  THEN <<Outcome(q, CHOOSE i \in 1..items : q.tasks[i] = "raised")>>
  ELSE [i \in 1..items |-> Outcome(q, i)]

gather(q, items) == [i \in 1..items |-> Outcome(q, i)]

ThrottleBecomes(q) ==
  /\ semaphore' = q.semaphore
  /\ active_tasks' = q.active_tasks
  /\ tasks' = q.tasks
  /\ UNCHANGED <<player_vars, cache_vars, kv_vars>>

\* add_batch(func, items): gather wraps one add() per item into a task
AddBatch ==
  /\ batch.state = "none"
  /\ batch' = [batch EXCEPT !.state = "pending"]
  /\ ThrottleBecomes(Throttle)

\* the event loop starts a call of add(): tasks 1..MaxBatch are the items of
\* the batch, started in the order gather created them; the others are
\* single calls
AddEnters == \E i \in Tasks :
  /\ tasks[i] = "new"
  /\ i <= MaxBatch => batch.state = "pending" /\ \A j \in 1..(i - 1) : tasks[j] # "new"
  /\ ThrottleBecomes(add_enters(Throttle, i))
  /\ UNCHANGED batch

AddResumes == \E i \in Tasks :
  /\ tasks[i] = "admitted"
  /\ ThrottleBecomes(add_resumes(Throttle, i))
  /\ UNCHANGED batch

FuncReturns == \E i \in Tasks :
  /\ tasks[i] = "running"
  /\ ThrottleBecomes(add_leaves(Throttle, i, TRUE))
  /\ UNCHANGED batch

FuncRaises == \E i \in Tasks :
  /\ tasks[i] = "running"
  /\ ThrottleBecomes(add_leaves(Throttle, i, FALSE))
  /\ UNCHANGED batch

BatchDone == \A i \in 1..MaxBatch : tasks[i] \in {"returned", "raised"}

\* every task of the batch is done: add_batch returns what gather collected
GatherReturns ==
  /\ batch.state = "pending"
  /\ BatchDone
  /\ batch' = [state |-> "returned", results |-> gather(Throttle, MaxBatch)]
  /\ ThrottleBecomes(Throttle)

ThrottleNext ==
  \/ AddBatch \/ AddEnters \/ AddResumes \/ FuncReturns \/ FuncRaises
  \/ GatherReturns

ThrottleSpec == Init /\ [][ThrottleNext]_vars

\* every func that was started comes to an end, and the event loop runs every
\* call that is ready
ThrottleLive ==
  /\ ThrottleSpec
  /\ WF_vars(AddResumes)
  /\ WF_vars(FuncReturns \/ FuncRaises)

\* ==== the file cache (services/file_cache.py, db/client.py) ===================
\* Cache keys (md5 of the track url) and the size of the audio stored for each
Keys == {"h1", "h2", "h3", "h4", "h5"}

getsize(h) ==
  CASE h = "h1" -> 40 [] h = "h2" -> 30 [] h = "h3" -> 20 [] h = "h4" -> 10
    [] OTHER -> 30

Procs == 1..MaxProcs

\* the keys calls are made with: three that may be stored, one that is new
InputKeys == {"h1", "h2", "h3", "h5"}

\* ---- the registry table (db/client.py) --------------------------------------
Hashes(reg) == {reg[i].hash : i \in DOMAIN reg}

\* remove_file_cache: delete the record if there is one
remove_file_cache(reg, hash_key) ==
  LET keep(e) == e.hash # hash_key IN SelectSeq(reg, keep)

\* get_file_cache: a record that exists gets accessedAt = utcnow(), which
\* makes it the most recently accessed one
get_file_cache(reg, hash_key) ==
  IF hash_key \in Hashes(reg)
  THEN LET e == CHOOSE e \in {reg[i] : i \in DOMAIN reg} : e.hash = hash_key
       IN  Append(remove_file_cache(reg, hash_key), e)
  ELSE reg

\* create_file_cache: a new record, accessed now (hash is the primary key: the
\* caller handles the IntegrityError of a second record for a hash)
create_file_cache(reg, hash_key, size) ==
  Append(reg, [hash |-> hash_key, bytes |-> size])

\* get_total_cache_size
RECURSIVE get_total_cache_size(_)
get_total_cache_size(reg) ==
  IF reg = <<>> THEN 0 ELSE Head(reg).bytes + get_total_cache_size(Tail(reg))

\* evict_if_needed fetches the oldest records ten at a time
batch_size == 10

\* get_oldest_file_caches
get_newest_file_caches(reg, limit) ==
  [i \in 1..Min(limit, Len(reg)) |-> reg[Len(reg) + 1 - i]]

get_oldest_file_caches(reg, limit) == SubSeq(reg, 1, Min(limit, Len(reg)))

\* ---- FileCacheProvider ------------------------------------------------------
Cache == [registry |-> registry, files |-> files, tmp_files |-> tmp_files,
          _eviction_lock |-> _eviction_lock, calls |-> calls]

\* A coroutine is at "<line>:call" when it has issued the awaited call of that
\* line and the call has not been carried out yet, and at "<line>:ret" when
\* the call is over and the coroutine has not resumed yet.  Lines of
\* services/player.py carry the prefix p.

\* the innermost call returns (or raises) to the frame below it
Return(c, p, result) ==
  LET f == c.calls[p]
  IN  IF f.stack = <<>>
      THEN [c EXCEPT !.calls[p].pc = "done", !.calls[p].result = result]
      ELSE [c EXCEPT !.calls[p].pc = Head(f.stack),
                     !.calls[p].stack = Tail(f.stack),
                     !.calls[p].result = result]

\* get_path_for, lines 32-48
get_path_for_unchecked(c, p) ==
  LET f == c.calls[p]
  IN  CASE f.pc = "35:call" ->
             [c EXCEPT !.registry = get_file_cache(@, f.hash_key),
                       !.calls[p].cache_entry = f.hash_key \in Hashes(c.registry),
                       !.calls[p].pc = "35:ret"]
        [] f.pc = "35:ret" ->
             IF ~f.cache_entry THEN Return(c, p, "None")
             ELSE Return(c, p, "path")
        [] OTHER -> c

get_path_for(c, p) ==
  LET f == c.calls[p]
  IN  CASE f.pc = "35:call" ->
             [c EXCEPT !.registry = get_file_cache(@, f.hash_key),
                       !.calls[p].cache_entry = f.hash_key \in Hashes(c.registry),
                       !.calls[p].pc = "35:ret"]
        [] f.pc = "35:ret" ->
             IF ~f.cache_entry THEN Return(c, p, "None")
             ELSE IF f.hash_key \notin c.files
                  THEN [c EXCEPT !.calls[p].pc = "44:call"]
                  ELSE Return(c, p, "path")
        [] f.pc = "44:call" ->
             [c EXCEPT !.registry = remove_file_cache(@, f.hash_key),
                       !.calls[p].pc = "44:ret"]
        [] f.pc = "44:ret" -> Return(c, p, "None")

\* the for loop of evict_if_needed from item i of the fetched batch up to the
\* next awaited call, lines 158-181
RECURSIVE evict_loop(_, _, _)
evict_loop(c, p, i) ==
  LET f == c.calls[p]
  IN  IF i > Len(f.oldest_files)
      THEN \* the batch is used up: `while bytes_freed < bytes_to_free`
           [c EXCEPT !.calls[p].pc = "159:call"]
      ELSE LET hash == f.oldest_files[i].hash
           IN  IF hash \in c.files
               THEN IF hash \in undeletable
                    THEN \* os.remove raises: logged, next item
                         evict_loop(c, p, i + 1)
                    ELSE [c EXCEPT !.files = @ \ {hash},
                                   !.calls[p].item = i,
                                   !.calls[p].pc = "170:call"]
               ELSE [c EXCEPT !.calls[p].item = i,
                              !.calls[p].pc = "179:call"]

\* leaving `async with self._eviction_lock`
evict_returns(c, p) == Return([c EXCEPT !._eviction_lock = 0], p, "None")

\* evict_if_needed, lines 140-183
evict_if_needed(c, p) ==
  LET f == c.calls[p]
      hash == f.oldest_files[f.item].hash
  IN  CASE f.pc = "142:call" ->
             [c EXCEPT !._eviction_lock = p, !.calls[p].pc = "144:call"]
        [] f.pc = "144:call" ->
             [c EXCEPT !.calls[p].total_size = get_total_cache_size(c.registry),
                       !.calls[p].snapshot = c.registry,
                       !.calls[p].pc = "144:ret"]
        [] f.pc = "144:ret" ->
             IF f.total_size <= cache_limit_bytes THEN evict_returns(c, p)
             ELSE [c EXCEPT !.calls[p].bytes_to_free =
                                f.total_size - cache_limit_bytes,
                            !.calls[p].bytes_freed = 0,
                            !.calls[p].pc = "159:call"]
        [] f.pc = "159:call" ->
             [c EXCEPT !.calls[p].oldest_files =
                           get_oldest_file_caches(c.registry, batch_size),
                       !.calls[p].pc = "159:ret"]
        [] f.pc = "159:ret" ->
             IF f.oldest_files = <<>> THEN evict_returns(c, p)
             ELSE evict_loop(c, p, 1)
        [] f.pc = "170:call" ->
             [c EXCEPT !.registry = remove_file_cache(@, hash),
                       !.calls[p].evicted = Append(@, hash),
                       !.calls[p].pc = "170:ret"]
        [] f.pc = "170:ret" ->
             LET freed == f.bytes_freed + f.oldest_files[f.item].bytes
                 c1 == [c EXCEPT !.calls[p].bytes_freed = freed]
             IN  IF freed >= f.bytes_to_free THEN evict_returns(c1, p)
                 ELSE evict_loop(c1, p, f.item + 1)
        [] f.pc = "179:call" ->
             [c EXCEPT !.registry = remove_file_cache(@, hash),
                       !.calls[p].dropped = Append(@, hash),
                       !.calls[p].pc = "179:ret"]
        [] f.pc = "179:ret" -> evict_loop(c, p, f.item + 1)

\* a call of evict_if_needed that returns to pc `back`
call_evict_if_needed(c, p, ret_pc) ==
  [c EXCEPT !.calls[p].stack = <<ret_pc>> \o @, !.calls[p].pc = "142:call"]

\* cache_file up to its first awaited call, lines 50-80: `source` is "final"
\* when file_path is the path the file is published at, "outside" when it is
\* an existing file somewhere else
cache_file_enters(c, p, hash_key, source) ==
  LET c0 == [c EXCEPT !.calls[p].hash_key = hash_key,
                      !.calls[p].file_path = source]
  IN  IF hash_key \in c.files
      THEN [c0 EXCEPT !.calls[p].pc = "62:call"]
      ELSE IF source = "outside"
           THEN \* copy2 to tmp, getsize, move
                [c0 EXCEPT !.files = @ \cup {hash_key},
                           !.calls[p].pc = "80:call"]
           ELSE \* getsize of a file that is not there raises
                Return(c0, p, "raised")

\* cache_file after its first awaited call, lines 62-97
cache_file(c, p) ==
  LET f == c.calls[p]
  IN  CASE f.pc = "62:call" ->
             IF f.fault = "registry"
             THEN \* the session raises: line 62 is outside the try block
                  Return(c, p, "raised")
             ELSE [c EXCEPT !.registry = get_file_cache(@, f.hash_key),
                            !.calls[p].pc = "62:ret"]
        [] f.pc = "62:ret" -> Return(c, p, "path")
        [] f.pc = "80:call" ->
             IF f.hash_key \in Hashes(c.registry)
             THEN [c EXCEPT !.calls[p].pc = "80:raise"]
             ELSE [c EXCEPT !.registry = create_file_cache(@, f.hash_key,
                                                           getsize(f.hash_key)),
                            !.calls[p].pc = "80:ret"]
        [] f.pc = "80:raise" ->
             Return([c EXCEPT !.tmp_files = @ \ {f.hash_key}], p, "raised")
        [] f.pc = "80:ret" -> call_evict_if_needed(c, p, "85:ret")
        [] f.pc = "85:ret" -> Return(c, p, "path")

\* Player._cache_song up to the download, player.py lines 664-693
_cache_song_enters(c, p, cache_key) ==
  LET c0 == [c EXCEPT !.calls[p].hash_key = cache_key]
  IN  IF cache_key \in c.files THEN Return(c0, p, "None")
      ELSE [c0 EXCEPT !.calls[p].pc = "p693:call"]

\* ffmpeg runs while _cache_song waits in process.communicate(): it writes
\* the whole stream to tmp_path and exits with 0, or fails and may leave a
\* partial file.  `fault` is what goes wrong in the task after a good
\* download: "move" (shutil.move raises), "registry" (the registry call of
\* cache_file raises) or "none".
ffmpeg(c, p, returncode, written, fault) ==
  [c EXCEPT !.tmp_files = IF written THEN @ \cup {c.calls[p].hash_key} ELSE @,
            !.calls[p].returncode = returncode,
            !.calls[p].fault = fault,
            !.calls[p].pc = "p693:ret"]

\* Player._cache_song after the download, player.py lines 695-723
_cache_song_keeps_tmp(c, p) ==
  LET f == c.calls[p]
      key == f.hash_key
  IN  CASE f.pc = "p693:ret" ->
             IF f.returncode # 0 \/ f.fault = "move" THEN Return(c, p, "None")
             ELSE IF key \in c.tmp_files
                  THEN cache_file_enters(
                         [c EXCEPT !.tmp_files = @ \ {key},
                                   !.files = @ \cup {key},
                                   !.calls[p].stack = <<"p710:ret">>],
                         p, key, "final")
                  ELSE Return(c, p, "None")
        [] f.pc = "p710:ret" ->
             IF f.result = "raised" THEN Return(c, p, "None")
             ELSE call_evict_if_needed(c, p, "p715:ret")
        [] f.pc = "p715:ret" -> Return(c, p, "None")

_cache_song(c, p) ==
  LET f == c.calls[p]
      key == f.hash_key
  IN  CASE f.pc = "p693:ret" ->
             IF f.returncode # 0
             THEN Return([c EXCEPT !.tmp_files = @ \ {key}], p, "None")
             ELSE IF key \in c.tmp_files
                  THEN IF f.fault = "move"
                       THEN \* shutil.move raises; except Exception: logged,
                            \* tmp file removed
                            Return([c EXCEPT !.tmp_files = @ \ {key}], p, "None")
                       ELSE \* shutil.move(tmp_path, final_path), then
                            \* cache_file(cache_key, final_path)
                            cache_file_enters(
                              [c EXCEPT !.tmp_files = @ \ {key},
                                        !.files = @ \cup {key},
                                        !.calls[p].stack = <<"p710:ret">>],
                              p, key, "final")
                  ELSE Return(c, p, "None")
        [] f.pc = "p710:ret" ->
             IF f.result = "raised"
             THEN \* except Exception: logged, tmp file removed
                  Return([c EXCEPT !.tmp_files = @ \ {key}], p, "None")
             ELSE call_evict_if_needed(c, p, "p715:ret")
        [] f.pc = "p715:ret" -> Return(c, p, "None")

\* os.listdir(cache_dir): the files of S in one of the orders the file system
\* may list them
RECURSIVE listdir(_)
listdir(S) ==
  IF S = {} THEN {<<>>}
  ELSE UNION {{<<h>> \o t : t \in listdir(S \ {h})} : h \in S}

\* cleanup, lines 99-104, up to the first awaited call of
\* remove_orphaned_files (lines 106-119): the files are listed, then looked
\* up one by one
cleanup_enters(c, p, listing) ==
  LET c0 == [c EXCEPT !.calls[p].cache_files = listing,
                      !.calls[p].before = c.registry,
                      !.calls[p].item = 1,
                      !.calls[p].stack = <<"103:ret">>]
  IN  IF listing = <<>> THEN Return(c0, p, "None")
      ELSE [c0 EXCEPT !.calls[p].pc = "119:call"]

\* remove_orphaned_files after its first awaited call, lines 118-138.  Every
\* file in tmp/ was written by a caching task of this run, none is older
\* than 24 hours: the loop of lines 129-138 removes nothing.
remove_orphaned_files(c, p) ==
  LET f == c.calls[p]
      file_hash == f.cache_files[f.item]
  IN  CASE f.pc = "119:call" ->
             [c EXCEPT !.registry = get_file_cache(@, file_hash),
                       !.calls[p].cache_entry = file_hash \in Hashes(c.registry),
                       !.calls[p].pc = "119:ret"]
        [] f.pc = "119:ret" ->
             LET c1 == IF ~f.cache_entry /\ file_hash \notin undeletable
                       THEN [c EXCEPT !.files = @ \ {file_hash}]
                       ELSE c
             IN  IF f.item < Len(f.cache_files)
                 THEN [c1 EXCEPT !.calls[p].item = f.item + 1,
                                 !.calls[p].pc = "119:call"]
                 ELSE Return(c1, p, "None")

\* cleanup after remove_orphaned_files, lines 103-104
cleanup(c, p) ==
  LET f == c.calls[p]
  IN  CASE f.pc = "103:ret" -> call_evict_if_needed(c, p, "104:ret")
        [] f.pc = "104:ret" -> Return(c, p, "None")

CacheBecomes(c) ==
  /\ registry' = c.registry
  /\ files' = c.files
  /\ tmp_files' = c.tmp_files
  /\ _eviction_lock' = c._eviction_lock
  /\ calls' = c.calls
  /\ UNCHANGED <<undeletable, cache_limit_bytes, player_vars, throttle_vars,
                 kv_vars>>

\* coroutine p makes its call `op`
Called(p, op) == [Cache EXCEPT !.calls[p].op = op]

\* HertzBot.start awaits file_cache.cleanup() before it loads the cogs and
\* connects: no other call of the cache is made while it runs
Started == \A q \in Procs : calls[q].op = "cleanup" => calls[q].pc = "done"

CanCall(p) == calls[p].op = "none" /\ Started

\* cleanup() at start-up, before anything else has used the cache
Cleanup == \E p \in Procs, listing \in listdir(files) :
  /\ \A q \in Procs : calls[q].op \in {"none", "absent"}
  /\ calls[p].op = "none"
  /\ CacheBecomes(cleanup_enters(Called(p, "cleanup"), p, listing))

RemoveOrphanedFilesSteps == \E p \in Procs :
  /\ calls[p].pc \in {"119:call", "119:ret"}
  /\ CacheBecomes(remove_orphaned_files(Cache, p))

CleanupSteps == \E p \in Procs :
  /\ calls[p].pc \in {"103:ret", "104:ret"}
  /\ CacheBecomes(cleanup(Cache, p))

GetPathFor == \E p \in Procs, hash_key \in InputKeys :
  /\ CanCall(p)
  /\ CacheBecomes([Called(p, "get_path_for") EXCEPT
                     !.calls[p].hash_key = hash_key,
                     !.calls[p].pc = "35:call"])

CacheFile == \E p \in Procs, hash_key \in InputKeys, source \in {"outside", "final"} :
  /\ CanCall(p)
  /\ CacheBecomes(cache_file_enters(Called(p, "cache_file"), p, hash_key, source))

EvictIfNeeded == \E p \in Procs :
  /\ CanCall(p)
  /\ CacheBecomes([Called(p, "evict_if_needed") EXCEPT !.calls[p].pc = "142:call"])

CacheSong == \E p \in Procs, cache_key \in InputKeys :
  /\ CanCall(p)
  /\ CacheBecomes(_cache_song_enters(Called(p, "_cache_song"), p, cache_key))

GetPathForSteps == \E p \in Procs :
  /\ calls[p].pc \in {"35:call", "35:ret", "44:call", "44:ret"}
  /\ CacheBecomes(get_path_for(Cache, p))

CacheFileSteps == \E p \in Procs :
  /\ calls[p].pc \in {"62:call", "62:ret", "80:call", "80:raise", "80:ret",
                      "85:ret"}
  /\ CacheBecomes(cache_file(Cache, p))

\* asyncio.Lock: a coroutine gets past line 142 when the lock is free
EvictSteps == \E p \in Procs :
  /\ calls[p].pc \in {"142:call", "144:call", "144:ret", "159:call", "159:ret",
                      "170:call", "170:ret", "179:call", "179:ret"}
  /\ calls[p].pc = "142:call" => _eviction_lock = 0
  /\ CacheBecomes(evict_if_needed(Cache, p))

Ffmpeg == \E p \in Procs, returncode \in {0, 1}, written \in BOOLEAN,
             fault \in {"none", "move", "registry"} :
  /\ calls[p].pc = "p693:call"
  /\ returncode = 0 => written
  /\ returncode # 0 => fault = "none"
  /\ CacheBecomes(ffmpeg(Cache, p, returncode, written, fault))

CacheSongSteps == \E p \in Procs :
  /\ calls[p].pc \in {"p693:ret", "p710:ret", "p715:ret"}
  /\ CacheBecomes(_cache_song(Cache, p))

CacheNext ==
  \/ GetPathFor \/ CacheFile \/ EvictIfNeeded \/ CacheSong
  \/ GetPathForSteps \/ CacheFileSteps \/ EvictSteps \/ Ffmpeg
  \/ CacheSongSteps
  \/ Cleanup \/ RemoveOrphanedFilesSteps \/ CleanupSteps

\* ---- the states a call can find the cache in -------------------------------
\* records and files of up to three tracks, in any order of last access; a
\* record may have lost its file, a file may have no record, and a file may
\* be one that os.remove fails on
StoredKeys == {"h1", "h2", "h3"}

RECURSIVE Orders(_)
Orders(S) ==
  IF S = {} THEN {<<>>}
  ELSE UNION {{<<[hash |-> h, bytes |-> getsize(h)]>> \o t : t \in Orders(S \ {h})}
              : h \in S}

Registries == UNION {Orders(S) : S \in SUBSET StoredKeys}

Limits == {50, 60}

AnyCache ==
  /\ registry \in Registries
  /\ files \in SUBSET StoredKeys
  /\ undeletable \in SUBSET files
  /\ cache_limit_bytes \in Limits
  /\ tmp_files = {}
  /\ _eviction_lock = 0

\* the cache of the eviction scenario: budget 100, four entries of 40, 30, 20
\* and 10 bytes, the largest accessed longest ago
ScenarioCache ==
  /\ registry = <<[hash |-> "h1", bytes |-> 40], [hash |-> "h2", bytes |-> 30],
                  [hash |-> "h3", bytes |-> 20], [hash |-> "h4", bytes |-> 10]>>
  /\ files = {"h1", "h2", "h3", "h4"}
  /\ undeletable = {}
  /\ cache_limit_bytes = 100
  /\ tmp_files = {}
  /\ _eviction_lock = 0

\* one coroutine makes one call on any cache
SoloInit ==
  /\ PlayerInit /\ ThrottleInit /\ KVEmpty
  /\ AnyCache \/ ScenarioCache
  /\ calls = [p \in Procs |-> IF p = 1 THEN NoCall
                              ELSE [NoCall EXCEPT !.op = "absent"]]

SoloSpec == SoloInit /\ [][CacheNext]_vars

\* each call that was made is carried on
SoloLive == SoloSpec /\ WF_vars(GetPathForSteps \/ CacheFileSteps \/ EvictSteps
                                  \/ Ffmpeg \/ CacheSongSteps
                                  \/ RemoveOrphanedFilesSteps \/ CleanupSteps)

\* every coroutine makes one call, in any interleaving, on a cache with a
\* budget of 60 bytes and files that can all be deleted
CacheInit ==
  /\ PlayerInit /\ ThrottleInit /\ KVEmpty
  /\ AnyCache
  /\ undeletable = {}
  /\ cache_limit_bytes = 60
  /\ calls = [p \in Procs |-> NoCall]

CacheSpec == CacheInit /\ [][CacheNext]_vars

\* ==== the key-value cache (services/key_value_cache.py, db/client.py) ==========

\* the clock counts ticks of a quarter of a second
TicksPerSecond == 4

\* the clock stops after two seconds
MaxClock == 8

\* longest time to live, in seconds
MaxTtl == 1

KVKeys == {"k1"}

Ttls == 0..MaxTtl

\* values a caller stores with set(): a text that is not JSON and one that is
Texts == {"a", "null"}

\* results of a wrapped function: a str, None, a list, a tuple, a set and a
\* list that contains itself
PyValues == {Str("a"), None, [type |-> "list", v |-> "a"],
             [type |-> "tuple", v |-> "a"], [type |-> "set", v |-> "a"],
             [type |-> "cyclic list", v |-> ""]}

\* json.dumps(x): the text, or the exception the encoder raises.  A tuple is
\* written as an array, a set is not serializable (TypeError), a container
\* that contains itself is a circular reference (ValueError).
json_dumps(x) ==
  CASE x.type = "str" /\ x.v = "a" -> [raises |-> "none", text |-> "\"a\""]
    [] x.type = "str" /\ x.v = "null" -> [raises |-> "none", text |-> "\"null\""]
    [] x.type = "NoneType" -> [raises |-> "none", text |-> "null"]
    [] x.type \in {"list", "tuple"} -> [raises |-> "none", text |-> "[\"a\"]"]
    [] x.type = "cyclic list" -> [raises |-> "ValueError", text |-> ""]
    [] OTHER -> [raises |-> "TypeError", text |-> ""]

\* json.loads(text): the value, or JSONDecodeError.  An array is read as a list.
json_loads(text) ==
  CASE text = "\"a\"" -> [raises |-> "none", value |-> Str("a")]
    [] text = "\"null\"" -> [raises |-> "none", value |-> Str("null")]
    [] text = "null" -> [raises |-> "none", value |-> None]
    [] text = "[\"a\"]" -> [raises |-> "none", value |-> [type |-> "list", v |-> "a"]]
    [] OTHER -> [raises |-> "JSONDecodeError", value |-> None]

\* datetime.replace(microsecond=0): the start of the second the clock is in
replace_microsecond_0(now) == (now \div TicksPerSecond) * TicksPerSecond

timedelta(seconds) == seconds * TicksPerSecond

\* the table without the row of the key (session.delete)
delete(table, key) == [k \in DOMAIN table \ {key} |-> table[k]]

\* get_key_value(key), db/client.py lines 263-277: the value, or None when
\* there is no row or the row has expired; an expired row is deleted
get_key_value(table, now, key) ==
  IF key \notin DOMAIN table THEN [table |-> table, value |-> None]
  ELSE IF table[key].expiresAt < now
       THEN [table |-> delete(table, key), value |-> None]
       ELSE [table |-> table, value |-> Str(table[key].value)]

\* set_key_value(key, value, ttl), db/client.py lines 279-300: the row of the
\* key is updated or created
set_key_value(table, now, key, value, ttl) ==
  LET expires_at == replace_microsecond_0(now) + timedelta(ttl)
      cache == [value |-> value, expiresAt |-> expires_at]
  IN  [k \in DOMAIN table \cup {key} |-> IF k = key THEN cache ELSE table[k]]

KV == [key_value_caches |-> key_value_caches, utcnow |-> utcnow,
       kv_call |-> kv_call, last_set |-> last_set]

\* the set is written to the history
remembered(history, now, key, value, ttl) ==
  [k \in DOMAIN history \cup {key} |->
     IF k = key THEN [at |-> now, ttl |-> ttl, value |-> value] ELSE history[k]]

\* KeyValueCache.get(key), key_value_cache.py lines 28-42
get(s, key) ==
  LET r == get_key_value(s.key_value_caches, s.utcnow, key)
  IN  [s EXCEPT !.key_value_caches = r.table,
                !.kv_call = [NoKVCall EXCEPT !.op = "get", !.pc = "done",
                                             !.key = key, !.at = s.utcnow,
                                             !.result = r.value]]

\* KeyValueCache.set(key, value, ttl), key_value_cache.py lines 44-57
set(s, key, value, ttl) ==
  [s EXCEPT !.key_value_caches = set_key_value(@, s.utcnow, key, value, ttl),
            !.last_set = remembered(@, s.utcnow, key, value, ttl),
            !.kv_call = [NoKVCall EXCEPT !.op = "set", !.pc = "done",
                                         !.key = key, !.ttl = ttl,
                                         !.at = s.utcnow]]

\* KeyValueCache.wrap(func, key=key, ttl=ttl) up to the call of func,
\* key_value_cache.py lines 86-96: a cached text is decoded and returned
wrap_enters(s, key, ttl) ==
  LET r == get_key_value(s.key_value_caches, s.utcnow, key)
      f == [NoKVCall EXCEPT !.op = "wrap", !.key = key, !.ttl = ttl,
                            !.at = s.utcnow, !.cached = r.value]
      t == [s EXCEPT !.key_value_caches = r.table]
  IN  IF r.value # None
      THEN LET d == json_loads(r.value.v)
           IN  [t EXCEPT !.kv_call =
                  [f EXCEPT !.pc = "done",
                            !.result = IF d.raises = "none" THEN d.value
                                       ELSE r.value]]
      ELSE [t EXCEPT !.kv_call = [f EXCEPT !.pc = "96:call"]]

\* func returns while wrap waits for it at line 96
func_returns(s, result) ==
  [s EXCEPT !.kv_call.produced = result,
            !.kv_call.func_calls = @ + 1,
            !.kv_call.pc = "96:ret"]

\* wrap after the call of func, lines 98-105: a TypeError of json.dumps is
\* caught, any other exception of it leaves wrap
wrap_stores(s) ==
  LET f == s.kv_call
      d == json_dumps(f.produced)
  IN  CASE d.raises = "TypeError" ->
             [s EXCEPT !.kv_call.result = f.produced, !.kv_call.pc = "done"]
        [] d.raises = "ValueError" ->
             [s EXCEPT !.kv_call.raised = "ValueError", !.kv_call.pc = "done"]
        [] OTHER ->
             [s EXCEPT !.key_value_caches =
                          set_key_value(@, s.utcnow, f.key, d.text, f.ttl),
                       !.last_set = remembered(@, s.utcnow, f.key, d.text, f.ttl),
                       !.kv_call.at = s.utcnow,
                       !.kv_call.result = f.produced,
                       !.kv_call.pc = "done"]

KVBecomes(s) ==
  /\ key_value_caches' = s.key_value_caches
  /\ utcnow' = s.utcnow
  /\ kv_call' = s.kv_call
  /\ last_set' = s.last_set
  /\ UNCHANGED <<player_vars, throttle_vars, cache_vars>>

\* no call is in progress
Returned == kv_call.pc \in {"idle", "done"}

\* time passes
ClockTick ==
  /\ utcnow < MaxClock
  /\ KVBecomes([KV EXCEPT !.utcnow = @ + 1])

KVGet == \E key \in KVKeys :
  /\ Returned
  /\ KVBecomes(get(KV, key))

KVSet == \E key \in KVKeys, value \in Texts, ttl \in Ttls :
  /\ Returned
  /\ KVBecomes(set(KV, key, value, ttl))

Wrap == \E key \in KVKeys, ttl \in Ttls :
  /\ Returned
  /\ KVBecomes(wrap_enters(KV, key, ttl))

FuncReturnsValue == \E result \in PyValues :
  /\ kv_call.pc = "96:call"
  /\ KVBecomes(func_returns(KV, result))

WrapStores ==
  /\ kv_call.pc = "96:ret"
  /\ KVBecomes(wrap_stores(KV))

KVNext == ClockTick \/ KVGet \/ KVSet \/ Wrap \/ FuncReturnsValue \/ WrapStores

KVSpec == Init /\ [][KVNext]_vars

\* ==== properties ==============================================================

\* the current track, the track after it
Current == get_current(Cmd("none"))

\* the step ends in the state the operation returns
Reached(r) == [r EXCEPT !.g = Call("none")] = Player(Call("none"))'

\* an operation that raises: directly, or after the recovery skip of a play()
\* that failed
Raised(r) == r.g.raised \/ r.g.failed_at >= 0

\* the oldest posted task comes from the source of the current track, which
\* ran out undisturbed: nothing else was started since
NaturalFinish ==
  /\ Len(events) = 1
  /\ Head(events).natural
  /\ Head(events).song = Current
  /\ vc_state = "idle"
  /\ frames = <<>>

\* the transport plays the track at queue position c of the next state
PlayingAt(c) ==
  /\ queue_position' = c
  /\ c < Len(queue')
  /\ vc_state' = "playing"
  /\ vc_song' = queue'[c + 1]

\* ---- C1 ------------------------------------------------------------------
\* C1: in every reachable state of a session, 0 <= cursor <= len(queue).
C1_CursorInQueue == 0 <= queue_position /\ queue_position <= Len(queue)

\* a skip has moved the cursor onto the last track of a full queue
C1_Witness ==
  /\ just_skipped
  /\ Len(queue) = MaxQueue
  /\ queue_position = Len(queue) - 1
  /\ status = "PLAYING"

\* ---- C2 ------------------------------------------------------------------
\* C2: loop_current_song and loop_current_queue are never both true.
C2_LoopsExclusive == ~(loop_current_song /\ loop_current_queue)

\* the queue loop is on and survived a skip
C2_Witness ==
  /\ loop_current_queue
  /\ just_skipped
  /\ queue_position > 0
  /\ status = "PLAYING"

\* ---- C3 ------------------------------------------------------------------
\* the queue position a suspended forward() selected
Selected(f) == IF f.g.failed_at >= 0 THEN f.g.failed_at ELSE f.c

\* C3: when forward(k) returns (here: without raising an error), with
\* cursor + k < len(queue) the cursor is the old cursor + k and
\* positionSeconds is 0; with cursor + k >= len(queue) the session is Idle
\* and the queue is unchanged.
C3_ForwardAdvances ==
  [][/\ \A k \in 1..MaxSkip :
          LET r == forward(Cmd("forward"), k) IN
          (Quiet /\ Reached(r) /\ ~r.g.suspended) =>
             IF queue_position + k < Len(queue)
             THEN Raised(r) \/ (queue_position' = queue_position + k
                                /\ position_in_seconds' = 0)
             ELSE status' = "IDLE" /\ queue' = queue
     /\ (/\ frames # <<>>
         /\ Head(frames).g.op = "forward"
         /\ Reached(Woken)
         /\ ~Woken.g.suspended
         /\ ~Raised(Woken))
        => (queue_position' = Selected(Head(frames)) /\ position_in_seconds' = 0)
    ]_vars

\* ---- C4 ------------------------------------------------------------------
\* C4: every track-finished event of a source that played to its natural
\* end, handled while status is Playing, loopTrack is off and a next track
\* exists (one whose source can be built), advances the cursor by one and
\* starts that next track.
C4_NaturalFinishAdvances ==
  [][(/\ NaturalFinish
      /\ status = "PLAYING"
      /\ ~loop_current_song
      /\ queue_position + 1 < Len(queue)
      /\ SourceAvailable(queue[queue_position + 2])
      /\ Reached(Handled))
     => (/\ queue' = IF loop_current_queue THEN Append(queue, Current) ELSE queue
         /\ PlayingAt(queue_position + 1))
    ]_vars

\* ---- C5 ------------------------------------------------------------------
\* C5: after forward(n) or back() issued while a source is playing, handling
\* the finish callback of the source the skip stopped does not move the
\* queue again: with the callback handled and the skip returned, the cursor
\* is on the track the skip selected and that track is playing.
C5_StoppedSourceDoesNotAdvance ==
  [][/\ (/\ events # <<>>
          /\ ~Head(events).natural
          /\ frames = <<>>
          /\ status = "PLAYING"
          /\ just_skipped
          /\ vc_state = "playing"
          /\ vc_song = Current
          /\ Reached(Handled))
         => PlayingAt(queue_position)
     /\ (/\ frames # <<>>
          /\ Head(frames).g.op \in {"forward", "back"}
          /\ Head(frames).g.failed_at < 0
          /\ Head(frames).posted
          /\ events = <<>>
          /\ Reached(Woken))
         => PlayingAt(Head(frames).c)
    ]_vars

\* ---- C6 ------------------------------------------------------------------
\* C6: a track-finished event handled with loopQueue set and loopTrack off
\* appends the track whose source finished to the end of the queue.
C6_ReappendsFinishedTrack ==
  [][(/\ events # <<>>
      /\ status = "PLAYING"
      /\ loop_current_queue
      /\ ~loop_current_song
      /\ Reached(Handled))
     => queue' = Append(queue, Head(events).song)
    ]_vars

\* ---- C7 ------------------------------------------------------------------
\* the only track of the queue ran out under queue loop
SingleTrackFinish ==
  /\ NaturalFinish
  /\ status = "PLAYING"
  /\ loop_current_queue
  /\ Len(queue) = 1
  /\ queue_position = 0

C8_LoopTrackRestarts ==
  [][(/\ NaturalFinish
      /\ status = "PLAYING"
      /\ loop_current_song
      /\ Reached(Handled))
     => (/\ queue' = queue
         /\ PlayingAt(queue_position)
         /\ position_in_seconds' = 0
         /\ status' = "PLAYING")
    ]_vars

\* ---- C9 ------------------------------------------------------------------
\* what the operations that call play() for a caller return in this state
Returns ==
  (IF Quiet
   THEN {play(Cmd("play")), back(Cmd("back"))}
          \cup {forward(Cmd("forward"), k) : k \in 1..MaxSkip}
   ELSE {})
  \cup (IF frames # <<>> THEN {Woken} ELSE {})

\* C9: when play() fails on the current track, the cursor has advanced by at
\* most one track from the failed one by the time the error reaches the
\* caller.
C9_OneRecoverySkip ==
  [][\A r \in Returns :
        (Reached(r) /\ ~r.g.suspended /\ r.g.failed_at >= 0)
        => queue_position' <= r.g.failed_at + 1
    ]_vars

\* ---- C10 -----------------------------------------------------------------
\* C10: in every reachable state where status is Paused or Idle (and no
\* play() is asleep) no position tracker task is running.
C10_TrackerOnlyWhilePlaying ==
  (Quiet /\ status \in {"PAUSED", "IDLE"}) => ~position_tracker_task

\* ---- C11 -----------------------------------------------------------------
\* C11: in every reachable state with a current track that is not live,
\* positionSeconds <= that track's duration.  Stated for the states in which
\* the transport holds no source and no finish callback or play() is
\* pending, so that the race of the tracker against the end of a running
\* source is left out.
C11_PositionWithinDuration ==
  (/\ Current # NoSong
   /\ ~is_live(Current)
   /\ vc_state = "idle"
   /\ events = <<>>
   /\ frames = <<>>)
  => position_in_seconds <= length(Current)

\* ---- C12 -----------------------------------------------------------------
\* C12: after a connect(), and after a play() that does not fail, no
\* idle-disconnect timer scheduled before the call is still pending.
C12_SupersededTimerCancelled ==
  [][/\ (Quiet /\ Reached(connect(Cmd("connect"))))
        => (disconnect_timer' = "None" /\ stray_timers' = 0)
     /\ LET r == play(Cmd("play")) IN
        (Quiet /\ Reached(r) /\ ~Raised(r))
        => (disconnect_timer' = "None" /\ stray_timers' = 0)
    ]_vars

\* ---- C13 -----------------------------------------------------------------
\* the state after running past the end of the queue: Idle, and a disconnect
\* scheduled exactly when the configured delay is not 0
IdleScheduled ==
  /\ status' = "IDLE"
  /\ IF secondsToWaitAfterQueueEmpties > 0
     THEN disconnect_timer' = "Pending"
     ELSE disconnect_timer' = disconnect_timer /\ stray_timers' = stray_timers

\* forward(n) past the end of the queue
C13_ForwardPastEnd ==
  \A k \in 1..MaxSkip :
     (Quiet /\ queue_position + k >= Len(queue) /\ Reached(forward(Cmd("forward"), k)))
     => IdleScheduled

\* the last track of the queue ran out, no loop set
C13_FinishPastEnd ==
  (/\ NaturalFinish
   /\ status = "PLAYING"
   /\ ~loop_current_song
   /\ ~loop_current_queue
   /\ queue_position + 1 >= Len(queue)
   /\ Reached(Handled))
  => IdleScheduled

\* the timer fires: the session is disconnected iff status is Idle
C13_TimerFires ==
  (/\ disconnect_timer = "Pending"
   /\ Reached(disconnect_callback([Cmd("timer") EXCEPT !.disconnect_timer = "None"])))
  => IF status = "IDLE"
     THEN ~voice_client' /\ status' = "IDLE"
     ELSE voice_client' = voice_client /\ status' = status

\* C13: when forward(n) or a natural track finish runs past the end of the
\* queue, status becomes Idle and, if the idle-disconnect delay is not 0, a
\* disconnect is scheduled; when that timer fires the session is
\* disconnected iff status is still Idle; with a delay of 0 no disconnect is
\* ever scheduled.
C13_IdleDisconnect ==
  [][/\ C13_ForwardPastEnd
     /\ C13_FinishPastEnd
     /\ C13_TimerFires
     /\ (secondsToWaitAfterQueueEmpties = 0
         => (disconnect_timer' = "None" /\ stray_timers' = 0))
    ]_vars

\* ---- C14 -----------------------------------------------------------------
\* the operation left every field of the session as it was
Unchanged(r) == [r EXCEPT !.g = Call("none")] = Cmd("none")

\* C14: back() called with cursor = 0 fails (raises) and leaves the whole
\* session state unchanged.
C14_BackAtStartFails ==
  queue_position = 0
  => (back(Cmd("back")).g.raised /\ Unchanged(back(Cmd("back"))))

\* a session on its first track with state that a skip would reset
C14_Witness ==
  /\ Quiet
  /\ queue_position = 0
  /\ Len(queue) = 2
  /\ status = "PLAYING"
  /\ position_tracker_task
  /\ position_in_seconds > 0
  /\ ~just_skipped

\* ---- C15 -----------------------------------------------------------------
\* C15: seek(position) with no current track, with a live current track or
\* with position > duration fails and leaves the session and the running
\* source unchanged, as does every other seek that fails; a seek that does
\* not fail ends with status Playing, positionSeconds = position and the
\* source of the current track restarted, queue and cursor unchanged.
C15_SeekContract ==
  Quiet =>
    \A position_seconds \in 0..MaxPos :
       LET r == seek(Cmd("seek"), position_seconds) IN
       IF Current = NoSong \/ is_live(Current) \/ position_seconds > length(Current)
       THEN r.g.raised /\ Unchanged(r)
       ELSE IF r.g.raised
            THEN Unchanged(r)
            ELSE /\ r.status = "PLAYING"
                 /\ r.position_in_seconds = position_seconds
                 /\ r.vc_state = "playing"
                 /\ r.vc_song = Current
                 /\ r.queue = queue
                 /\ r.queue_position = queue_position

\* ---- C16 -----------------------------------------------------------------
\* C16: play() on a session paused on the current track with
\* positionSeconds > 0 (the transport holds that track's paused source)
\* resumes in place: the same source plays again, none was stopped or
\* started, cursor, queue and positionSeconds are as they were and status is
\* Playing; pause() in a state other than Playing fails and changes nothing.
C16_ResumeInPlace ==
  [][/\ (/\ Quiet
         /\ status = "PAUSED"
         /\ vc_state = "paused"
         /\ vc_song = Current
         /\ position_in_seconds > 0
         /\ Reached(play(Cmd("play"))))
        => (/\ vc_state' = "playing"
            /\ vc_song' = vc_song
            /\ vc_after' = vc_after
            /\ events' = events
            /\ frames' = frames
            /\ queue_position' = queue_position
            /\ queue' = queue
            /\ position_in_seconds' = position_in_seconds
            /\ status' = "PLAYING")
     /\ (Quiet /\ status # "PLAYING")
        => (pause(Cmd("pause")).g.raised /\ Unchanged(pause(Cmd("pause"))))
    ]_vars

\* ---- C17 -----------------------------------------------------------------
\* C17: after disconnect() status is Idle, no position tracker runs, no
\* idle-disconnect timer is pending and there is no transport connection;
\* a second disconnect() changes nothing; queue and cursor are preserved.
C17_DisconnectIdempotent ==
  Quiet =>
    LET r == disconnect(Cmd("disconnect")) IN
    /\ r.status = "IDLE"
    /\ ~r.position_tracker_task
    /\ r.disconnect_timer = "None"
    /\ r.stray_timers = 0
    /\ ~r.voice_client
    /\ disconnect(r) = r
    /\ r.queue = queue
    /\ r.queue_position = queue_position

\* ---- C18 -----------------------------------------------------------------
\* the sequence s without its i-th element
Without(s, i) == SubSeq(s, 1, i - 1) \o SubSeq(s, i + 1, Len(s))

\* C18 as claimed: add(track, toFront) appends the track to the end of the
\* queue unless toFront is set and the track has no playlist of origin, in
\* which case the track is at index cursor + 1; nothing else of the session
\* changes and the tracks already queued keep their order.
C18_AddAsClaimed ==
  \A song \in Songs, immediate \in BOOLEAN :
     LET r == add(Cmd("add"), song, playlist(song), immediate)
         at == IF immediate /\ ~playlist(song)
               THEN queue_position + 2
               ELSE Len(queue) + 1
     IN  /\ Len(r.queue) = Len(queue) + 1
         /\ at <= Len(r.queue)
         /\ r.queue[at] = song
         /\ Without(r.queue, at) = queue
         /\ [r EXCEPT !.queue = queue] = Cmd("add")

\* C18 amended: add(track, toFront) appends the track to the end of the
\* queue unless toFront is set and the track has no playlist of origin, in
\* which case the track is at index cursor + 1, or at the end of the queue
\* when the queue has no index cursor + 1 (an empty queue: the track becomes
\* the current one); nothing else of the session changes and the tracks
\* already queued keep their order.
C18_AddPlacesTrack ==
  \A song \in Songs, immediate \in BOOLEAN :
     LET r == add(Cmd("add"), song, playlist(song), immediate)
         at == IF immediate /\ ~playlist(song)
               THEN Min(queue_position + 1, Len(queue)) + 1
               ELSE Len(queue) + 1
     IN  /\ Len(r.queue) = Len(queue) + 1
         /\ r.queue[at] = song
         /\ Without(r.queue, at) = queue
         /\ [r EXCEPT !.queue = queue] = Cmd("add")

\* a track was put in front of the tracks waiting behind the current one
C18_Witness ==
  /\ status = "PLAYING"
  /\ queue_position = 0
  /\ position_in_seconds > 0
  /\ queue = <<"live", "a", "bad">>

\* ---- C19 -----------------------------------------------------------------
\* C19: remove_from_queue and move called with a position outside the queue
\* fail with an error raised to the caller and leave queue and cursor
\* unchanged.
C19_InvalidPositionRaises ==
  (Quiet /\ Current # NoSong) =>
    /\ \A index \in 1..MaxSkip, amount \in 1..MaxSkip :
          queue_position + index >= Len(queue)
          => LET r == remove_from_queue(Cmd("remove"), index, amount) IN
             r.g.raised /\ r.queue = queue /\ r.queue_position = queue_position
    /\ \A from_pos \in 1..MaxSkip, to_pos \in 1..MaxSkip :
          (queue_position + from_pos >= Len(queue) \/ queue_position + to_pos >= Len(queue))
          => LET r == move(Cmd("move"), from_pos, to_pos) IN
             r.g.raised /\ r.queue = queue /\ r.queue_position = queue_position

\* ---- C20 -----------------------------------------------------------------
\* a fresh session to which one track was added and which was connected
FreshWith(song) ==
  /\ Cmd("none") = [Cmd("none") EXCEPT
                      !.queue = <<song>>, !.voice_client = TRUE,
                      !.status = "IDLE", !.queue_position = 0,
                      !.position_in_seconds = 0, !.loop_current_song = FALSE,
                      !.loop_current_queue = FALSE, !.position_tracker_task = FALSE,
                      !.disconnect_timer = "None", !.stray_timers = 0,
                      !.last_song_url = "", !.just_skipped = FALSE,
                      !.vc_state = "idle", !.vc_song = NoSong, !.vc_after = "none",
                      !.events = <<>>, !.frames = <<>>]
  /\ SourceAvailable(song)

\* C20: from a fresh session, add(trackA), connect(channelX), play() ends
\* with status Playing and cursor 0, and the transport has received one play
\* call, for trackA: its source is playing, wired to the track-finished
\* event, and no source was stopped.
C20_FirstPlay ==
  \A song \in Songs :
     FreshWith(song)
     => LET r == play(Cmd("play")) IN
        /\ ~r.g.raised
        /\ r.status = "PLAYING"
        /\ r.queue_position = 0
        /\ r.queue = <<song>>
        /\ r.vc_state = "playing"
        /\ r.vc_song = song
        /\ r.vc_after = "play"
        /\ r.events = <<>>
        /\ r.frames = <<>>
        /\ r.position_in_seconds = 0

\* the first track of a fresh session is playing
C20_Witness ==
  /\ queue = <<"a">>
  /\ queue_position = 0
  /\ status = "PLAYING"
  /\ vc_state = "playing"
  /\ vc_song = "a"
  /\ vc_after = "play"
  /\ last_song_url = "a"
  /\ position_in_seconds = 0
  /\ ~just_skipped
  /\ events = <<>>
  /\ disconnect_timer = "None"
  /\ stray_timers = 0


\* ---- claims about the request throttle ------------------------------------
Running == {i \in Tasks : tasks[i] = "running"}

\* C21: with more calls than permits, the number of calls whose func is being
\* executed never exceeds the number of permits, and active_tasks always
\* equals that number.
C21_AtMostNRunning ==
  /\ Cardinality(Running) <= concurrency
  /\ active_tasks = Cardinality(Running)

\* all permits are taken while another call waits for one
C21_Witness ==
  /\ Cardinality(Running) = concurrency
  /\ \E i \in Tasks : tasks[i] = "waiting"


\* no call is waiting for a permit or inside func
AllFinished == \A i \in Tasks : tasks[i] \in {"new", "returned", "raised"}

\* C22: add() gives its permit back when func returns and when func raises,
\* and lets the exception through: once every call that was made has finished
\* all permits are available again and active_tasks is 0, and, as long as
\* every running func comes to an end, every waiting call is admitted.
C22_PermitsComeBack ==
  /\ [](AllFinished => /\ semaphore._value = concurrency
                       /\ semaphore._waiters = <<>>
                       /\ active_tasks = 0)
  /\ \A i \in Tasks : (tasks[i] = "waiting") ~> (tasks[i] = "running")

\* every call was made and has finished, some of them with an exception, and
\* the permits are back
C22_Witness ==
  /\ \A i \in Tasks : tasks[i] \in {"returned", "raised"}
  /\ \E i \in Tasks : tasks[i] = "raised"
  /\ \E i \in Tasks : tasks[i] = "returned"
  /\ semaphore._value = concurrency


\* C23: add_batch returns exactly one outcome per input item, in input order,
\* each the item's result or the failure it raised; the failure of one item
\* aborts no other item.
C23_BatchOutcomes ==
  batch.state = "returned" =>
    /\ Len(batch.results) = MaxBatch
    /\ \A i \in 1..MaxBatch :
         /\ tasks[i] \in {"returned", "raised"}
         /\ batch.results[i] =
              <<IF tasks[i] = "returned" THEN "result" ELSE "error", i>>

\* the batch has returned; its first item failed and a later one succeeded
C23_Witness ==
  /\ batch.state = "returned"
  /\ batch.results[1] = <<"error", 1>>
  /\ \E i \in 2..MaxBatch : batch.results[i] = <<"result", i>>


\* ---- claims about the file cache ------------------------------------------
CacheTypeOK == _eviction_lock \in 0..MaxProcs

\* the sweep of coroutine p has returned
Swept(p) == calls[p].op = "evict_if_needed" /\ calls[p].pc = "done"

WithinBudget ==
  get_total_cache_size(registry) <= cache_limit_bytes \/ registry = <<>>

\* C24: evict_if_needed always terminates, and when it returns the registry's
\* total size is within the budget or the registry is empty, whatever the
\* registry holds: records without a file and files whose deletion fails
\* included.
C24_SweepTerminates ==
  (calls[1].op = "evict_if_needed") ~> (Swept(1) /\ WithinBudget)

\* C24, the part that holds: a sweep that returns leaves the registry within
\* the budget or empty
C24_ReturnsWithinBudget == Swept(1) => WithinBudget

\* the length of the shortest prefix of reg whose sizes sum to at least need
\* (all of reg if no prefix does)
RECURSIVE ShortestPrefix(_, _)
ShortestPrefix(reg, need) ==
  IF need <= 0 \/ reg = <<>> THEN 0
  ELSE 1 + ShortestPrefix(Tail(reg), need - Head(reg).bytes)

\* the entries the registry had when the sweep of p read the total size and
\* has no more
Deleted(p) == Hashes(calls[p].snapshot) \ Hashes(registry)

\* what the sweep of p had to delete
Excess(p) ==
  LET reg == calls[p].snapshot
      n == ShortestPrefix(reg, get_total_cache_size(reg) - cache_limit_bytes)
  IN  {reg[i].hash : i \in 1..n}

\* C25: the entries a sweep deletes are exactly the shortest prefix of the
\* registry, least recently accessed first, whose sizes sum to at least
\* total size - budget.
C25_ShortestPrefix == Swept(1) => Deleted(1) = Excess(1)

\* C25 on a cache whose records all have a file that can be deleted
C25_ShortestPrefixOfSound ==
  (Swept(1) /\ undeletable = {} /\ Hashes(calls[1].snapshot) \subseteq files
            /\ calls[1].dropped = <<>>)
    => Deleted(1) = Excess(1)

\* the scenario: budget 100, entries of 40, 30, 20 and 10 bytes with
\* increasing recency, and cache_file has stored a new entry of 30 bytes
\* (total 130) and returned
ScenarioDone ==
  /\ cache_limit_bytes = 100
  /\ calls[1].op = "cache_file" /\ calls[1].pc = "done"
  /\ calls[1].hash_key = "h5"
  /\ calls[1].total_size = 130

\* C26 as stated: the eviction removes the two oldest entries (40 and 30) and
\* leaves a total of 60 bytes.
C26_EvictsTwoOldest ==
  ScenarioDone => /\ Deleted(1) = {"h1", "h2"}
                  /\ get_total_cache_size(registry) = 60

\* C26, amended: the eviction removes the oldest entry (40) only, which
\* covers the excess of 30 bytes, and leaves a total of 90 bytes.
C26_EvictsOldestOnly ==
  ScenarioDone => /\ Deleted(1) = {"h1"}
                  /\ files = {"h2", "h3", "h4", "h5"}
                  /\ [i \in DOMAIN registry |-> registry[i].hash]
                       = <<"h2", "h3", "h4", "h5">>
                  /\ get_total_cache_size(registry) = 90

C26_Witness == ScenarioDone /\ calls[1].result = "path"

\* the sweep of p has read a total size over the budget and has not returned
\* yet
SweepRunning(p) ==
  /\ _eviction_lock = p
  /\ calls[p].total_size > cache_limit_bytes
  /\ calls[p].pc \in {"144:ret", "159:call", "159:ret", "170:call", "170:ret",
                      "179:call", "179:ret"}

\* C27: registering and evicting are one critical section: while a sweep is
\* between its size read and its return, no record is inserted into the
\* registry or deleted from it by anyone but the sweep.
C27_OneCriticalSection ==
  [][\A p \in Procs :
       (SweepRunning(p) /\ Hashes(registry') # Hashes(registry))
         => calls'[p] # calls[p]]_vars

\* the caching task of p has downloaded the stream of `key`, handed the file
\* to cache_file and returned, and its sweeps have deleted nothing
Cached(p, key) ==
  /\ calls[p].op = "_cache_song" /\ calls[p].pc = "done"
  /\ calls[p].hash_key = key
  /\ calls[p].returncode = 0 /\ calls[p].file_path = "final"
  /\ calls[p].evicted = <<>> /\ calls[p].dropped = <<>>

\* what get_path_for(key), called by q now, returns when nothing else runs
\* meanwhile
Resolved(q, key) ==
  LET c0 == [Called(q, "get_path_for") EXCEPT !.calls[q].hash_key = key,
                                              !.calls[q].pc = "35:call"]
      c2 == get_path_for(get_path_for(c0, q), q)
  IN  IF c2.calls[q].pc = "done" THEN c2.calls[q].result
      ELSE get_path_for(get_path_for(c2, q), q).calls[q].result

\* C28: once the caching task of a track has downloaded the stream
\* successfully, the cache is populated for the track: a later get_path_for
\* of its key, as the next play makes it, returns the cached path.
C28_CachedAfterDownload ==
  \A p \in Procs, q \in Procs :
    (Cached(p, calls[p].hash_key) /\ calls[q].op = "none")
      => Resolved(q, calls[p].hash_key) = "path"

\* cache_file, called by p, has returned final_path, and its sweep has deleted
\* nothing
Stored(p) ==
  /\ calls[p].op = "cache_file" /\ calls[p].pc = "done"
  /\ calls[p].result = "path"
  /\ calls[p].evicted = <<>> /\ calls[p].dropped = <<>>

Records(reg) == {reg[i] : i \in DOMAIN reg}

\* C29: after cache_file(key, file_path) has returned successfully the file
\* exists under key and the registry has a record of key with the file's
\* size, whether file_path is outside the cache directory or the path the
\* file is published at.
C29_StoredIsRegistered ==
  \A p \in Procs :
    Stored(p) =>
      /\ calls[p].hash_key \in files
      /\ [hash |-> calls[p].hash_key, bytes |-> getsize(calls[p].hash_key)]
           \in Records(registry)

\* C29, second half: a cache_file for a key whose file is already published
\* changes neither the set of records nor their sizes
C29_StoreAgainKeepsRecords ==
  [][\A p \in Procs :
       (calls'[p].op = "cache_file" /\ calls'[p].pc \in {"62:call", "62:ret"})
         => Records(registry') = Records(registry)]_vars

\* get_path_for, called by p, has returned
Looked(p) == calls[p].op = "get_path_for" /\ calls[p].pc = "done"

\* C30: get_path_for(key) returns a path only when the registry has a record
\* of key and its file exists; when the record is there and the file is
\* missing it removes the record and returns None; on a hit the record's
\* access time is refreshed, which makes it the most recently accessed one.
C30_ResolveContract ==
  \A p \in Procs :
    Looked(p) =>
      LET key == calls[p].hash_key
      IN  IF calls[p].result = "path"
          THEN /\ calls[p].cache_entry
               /\ key \in files
               /\ key \in Hashes(registry)
               /\ registry[Len(registry)].hash = key
          ELSE /\ calls[p].result = "None"
               /\ key \notin Hashes(registry)
               /\ calls[p].cache_entry => key \notin files

\* a hit on an entry that was not the most recently accessed one
C30_Witness ==
  /\ Looked(1) /\ calls[1].result = "path"
  /\ Len(registry) = 3 /\ registry[3].hash = "h1"
  /\ registry[1].hash = "h2"

\* remove_orphaned_files, called by the cleanup of p, has returned
OrphansRemoved(p) == calls[p].op = "cleanup" /\ calls[p].pc = "103:ret"

\* C31: after remove_orphaned_files has completed with nothing else using the
\* cache, disk and registry mirror each other: every file in the cache
\* directory has a record and every record has a file.
C31_DiskMirrorsRegistry ==
  \A p \in Procs : OrphansRemoved(p) => files = Hashes(registry)

\* C31, the half that holds: no file without a record is left, unless its
\* deletion failed
C31_FilesHaveRecords ==
  \A p \in Procs :
    OrphansRemoved(p) => files \ undeletable \subseteq Hashes(registry)

\* C39: remove_orphaned_files leaves the access times of the records alone:
\* the records are in the same oldest-first order after it as before it, so
\* that the eviction that follows in cleanup() takes the entries playback
\* used least recently.
C39_OrderKept ==
  \A p \in Procs : OrphansRemoved(p) => registry = calls[p].before

\* C39 for the eviction that follows: what cleanup() has evicted is a prefix
\* of the order the registry had before it
C39_EvictsLeastRecent ==
  \A p \in Procs :
    (calls[p].op = "cleanup" /\ calls[p].pc = "done" /\ undeletable = {}
       /\ calls[p].dropped = <<>>)
      => \A i \in DOMAIN calls[p].before :
           (calls[p].before[i].hash \notin Hashes(registry))
             => \A j \in 1..i : calls[p].before[j].hash \notin Hashes(registry)

\* the caching task of p has ended in a failure: of the download, of the move
\* of the file, or of the registry
CachingFailed(p) ==
  /\ calls[p].op = "_cache_song" /\ calls[p].pc = "done"
  /\ \/ calls[p].returncode # 0
     \/ calls[p].fault = "move" /\ calls[p].file_path = ""
     \/ calls[p].fault = "registry" /\ calls[p].file_path = "final"

GetReturned == kv_call.op = "get" /\ kv_call.pc = "done"

\* the expiry of the last set of the key: the time of the set plus its ttl
Expiry(key) == last_set[key].at + timedelta(last_set[key].ttl)

\* C33: a get(k) made before the expiry of the last set(k, v, ttl) has passed
\* returns v, the value of that last set; a get(k) made after the ttl has
\* elapsed returns a miss and leaves no entry of k in the store
C33_TtlRoundTrip ==
  (GetReturned /\ kv_call.key \in DOMAIN last_set) =>
     /\ kv_call.at < Expiry(kv_call.key)
          => kv_call.result = Str(last_set[kv_call.key].value)
     /\ kv_call.at > Expiry(kv_call.key)
          => /\ kv_call.result = None
             /\ kv_call.key \notin DOMAIN key_value_caches

\* the same with the expiry the code stores: the ttl counted from the start
\* of the second of the set
C33_RoundTripFromSecondStart ==
  (GetReturned /\ kv_call.key \in DOMAIN last_set) =>
     LET k == kv_call.key
         stored == replace_microsecond_0(last_set[k].at) + timedelta(last_set[k].ttl)
     IN  /\ kv_call.at <= stored => kv_call.result = Str(last_set[k].value)
         /\ kv_call.at > stored => /\ kv_call.result = None
                                   /\ k \notin DOMAIN key_value_caches

WrapReturned == kv_call.op = "wrap" /\ kv_call.pc = "done"

\* what wrap owes its caller: on a miss func was called once, its result is
\* returned, and it is stored as JSON with the ttl when it has a JSON form,
\* else the key has no entry; on a hit func was not called and the decoded
\* entry is returned
Memoized ==
  LET f == kv_call
  IN  IF f.cached = None
      THEN /\ f.func_calls = 1
           /\ f.raised = "none"
           /\ f.result = f.produced
           /\ IF json_dumps(f.produced).raises = "none"
              THEN /\ f.key \in DOMAIN key_value_caches
                   /\ key_value_caches[f.key] =
                        [value |-> json_dumps(f.produced).text,
                         expiresAt |-> replace_microsecond_0(f.at)
                                         + timedelta(f.ttl)]
              ELSE f.key \notin DOMAIN key_value_caches
      ELSE /\ f.func_calls = 0
           /\ f.raised = "none"
           /\ f.result = IF json_loads(f.cached.v).raises = "none"
                         THEN json_loads(f.cached.v).value ELSE f.cached
           /\ f.key \in DOMAIN key_value_caches
           /\ key_value_caches[f.key].value = f.cached.v

\* C34: memoize(key, ttl, producer) calls the producer exactly once on a miss,
\* stores its serialized result under the key with the ttl and returns it;
\* on a hit it returns the stored value without calling the producer; a
\* result that cannot be serialized is returned and nothing is stored
C34_Memoize == WrapReturned => Memoized

\* the same for every result but one with a circular reference
C34_MemoizeAcyclic ==
  (WrapReturned /\ kv_call.produced.type # "cyclic list") => Memoized


\* ---- C35 -----------------------------------------------------------------
\* the state after the event loop has run the finish task that the source
\* stopped by seek(position_seconds) has posted
SeekThenHandled(position_seconds) ==
  LET r == seek(Cmd("seek"), position_seconds)
  IN  _handle_song_finished([r EXCEPT !.g = Call("finished"),
                                      !.events = Tail(@)])

\* a track is playing and nothing else is pending
PlayingUndisturbed ==
  /\ Quiet
  /\ events = <<>>
  /\ status = "PLAYING"
  /\ vc_state = "playing"
  /\ vc_song = Current

\* C35: a seek on a playing track that succeeds leaves queue and cursor as
\* they were, and once the finish callback of the source it stopped has been
\* handled they are still as they were, the status is Playing and the
\* transport plays the sought track
C35_SeekKeepsTrack ==
  \A position_seconds \in 0..MaxPos :
    LET r == seek(Cmd("seek"), position_seconds) IN
    (PlayingUndisturbed /\ ~r.g.raised) =>
       /\ r.queue = queue
       /\ r.queue_position = queue_position
       /\ r.events # <<>> =>
            LET h == SeekThenHandled(position_seconds)
            IN  /\ h.queue = queue
                /\ h.queue_position = queue_position
                /\ h.status = "PLAYING"
                /\ h.vc_state = "playing"
                /\ h.vc_song = Current

\* the seek itself leaves queue and cursor as they were
C35_SeekItselfKeepsTrack ==
  \A position_seconds \in 0..MaxPos :
    LET r == seek(Cmd("seek"), position_seconds) IN
    (PlayingUndisturbed /\ ~r.g.raised) =>
       /\ r.queue = queue
       /\ r.queue_position = queue_position
       /\ r.status = "PLAYING"
       /\ r.vc_song = Current


\* ---- C36 -----------------------------------------------------------------
\* the session is connected and idle since its queue ended: the timer that
\* the end of the queue schedules is pending, the transport has no source,
\* and the track at the cursor is the one that was played last
IdleAtQueueEnd ==
  /\ Quiet
  /\ events = <<>>
  /\ voice_client
  /\ status = "IDLE"
  /\ vc_state = "idle"
  /\ disconnect_timer = "Pending"
  /\ Current # NoSong
  /\ last_song_url = Current

\* what the play command does with a new track on an idle session: add,
\* then play()
AddThenPlay(song) ==
  LET r == add(Cmd("add"), song, playlist(song), FALSE)
  IN  play([r EXCEPT !.g = Call("play")])

\* the track of the source that r's operation handed, or is about to hand,
\* to the transport
Handed(r) ==
  IF r.frames # <<>> THEN r.frames[Len(r.frames)].song ELSE r.vc_song

\* C36: on a session that went Idle because its queue ended, adding a new
\* track and calling play() hands the new track to the transport
C36_PlaysNewTrack ==
  \A song \in Songs :
    (/\ IdleAtQueueEnd
     /\ Len(queue) < MaxQueue
     /\ SourceAvailable(song)
     /\ \A i \in 1..Len(queue) : queue[i] # song)
    => Handed(AddThenPlay(song)) = song

\* add and play() on such a session start the track at the cursor, the one
\* that was current when the queue ended
C36_PlaysTrackAtCursor ==
  \A song \in Songs :
    (/\ IdleAtQueueEnd
     /\ Len(queue) < MaxQueue
     /\ SourceAvailable(Current))
    => Handed(AddThenPlay(song)) = Current


\* ---- C37 -----------------------------------------------------------------
\* C37: in every reachable state at most one idle-disconnect timer is
\* pending, and a pending timer is the one self.disconnect_timer refers to:
\* no scheduled timer is left without a handle
C37_OneTimerWithHandle == stray_timers = 0


\* ---- C40 -----------------------------------------------------------------
\* how often the song s occurs in the sequence q
Occurrences(q, s) == Cardinality({i \in 1..Len(q) : q[i] = s})

\* r's queue holds the tracks of the queue, each as often
SameTracks(r) == \A s \in Songs : Occurrences(r.queue, s) = Occurrences(queue, s)

\* r has the current track, the status and the position of the state
KeepsCurrent(r) ==
  /\ Current # NoSong => get_current(r) = Current
  /\ r.status = status
  /\ r.position_in_seconds = position_in_seconds

\* C40: clear(), shuffle(), remove_from_queue(position >= 1, amount >= 1)
\* and move(from >= 1, to >= 1) leave the current track, the status and
\* positionSeconds as they were; clear() leaves exactly the current track;
\* shuffle() and move() keep the tracks of the queue, each as often
C40_EditsKeepCurrent ==
  Quiet =>
    /\ LET r == clear(Cmd("clear")) IN
         /\ KeepsCurrent(r)
         /\ Current # NoSong => r.queue = <<Current>>
    /\ \A upcoming \in Shuffles(get_queue(Cmd("shuffle"))) :
         LET r == shuffle(Cmd("shuffle"), upcoming) IN
           KeepsCurrent(r) /\ SameTracks(r)
    /\ \A index \in 1..MaxSkip, amount \in 1..MaxSkip :
         KeepsCurrent(remove_from_queue(Cmd("remove"), index, amount))
    /\ \A from_pos \in 1..MaxSkip, to_pos \in 1..MaxSkip :
         LET r == move(Cmd("move"), from_pos, to_pos) IN
           KeepsCurrent(r) /\ SameTracks(r)

\* a track is playing and each of the four operations changes the queue
C40_Witness ==
  /\ Quiet
  /\ Current # NoSong
  /\ status = "PLAYING"
  /\ position_in_seconds > 0
  /\ clear(Cmd("clear")).queue # queue
  /\ \E upcoming \in Shuffles(get_queue(Cmd("shuffle"))) :
       shuffle(Cmd("shuffle"), upcoming).queue # queue
  /\ remove_from_queue(Cmd("remove"), 1, 1).queue # queue
  /\ move(Cmd("move"), 1, 2).queue # queue


\* ---- C38 -----------------------------------------------------------------
\* in this step the sweep of coroutine p deletes the file of an entry of
\* its batch (os.remove, line 169)
DeletesFile(p) ==
  /\ calls[p].pc # "170:call"
  /\ calls'[p].pc = "170:call"

\* the entry the sweep of p is deleting
Deleting(f) == f.oldest_files[f.item]

\* with this entry the sweep has freed enough: it deletes nothing more, and
\* every other entry of the registry survives it
LastDeletion(f) == f.bytes_freed + Deleting(f).bytes >= f.bytes_to_free

\* C38: the entry a sweep deletes is, at the moment of its deletion, not
\* more recently accessed than an entry that survives the sweep.  Stated
\* for the last deletion of a sweep, which every other entry survives: the
\* entry it deletes is the least recently accessed of the registry.
C38_DeletesLeastRecent ==
  [][\A p \in Procs :
       (DeletesFile(p) /\ LastDeletion(calls'[p]))
       => /\ registry # <<>>
          /\ registry[1].hash = Deleting(calls'[p]).hash]_vars


\* the same when every file can be deleted; it holds for a sweep that no
\* other coroutine disturbs
C38_UndisturbedDeletesLeastRecent ==
  [][\A p \in Procs :
       (undeletable = {} /\ DeletesFile(p) /\ LastDeletion(calls'[p]))
       => /\ registry # <<>>
          /\ registry[1].hash = Deleting(calls'[p]).hash]_vars

====
